---- MODULE Spec2Model ----
(***************************************************************************)
(* Handle lifecycle and marshalling layer of xlog-rs (crates/xlog and      *)
(* crates/xlog-android-jni), over the native engine contract declared in   *)
(* crates/xlog-sys.                                                        *)
(*                                                                         *)
(* Rust strings are sequences of byte values (ASCII codes); byte 0 is the  *)
(* C terminator.  A C pointer is a record [null, s]; an Option<String> is  *)
(* a record [some, v].                                                     *)
(***************************************************************************)
EXTENDS Integers, Sequences, FiniteSets, TLC

\* ------------------------------------------------------------------ bounds
\* Rust-level owner slots (variables of type Xlog held by callers).
NumOwners == 2
\* Threads calling into the numeric-handle (JNI) bridge.
NumThreads == 2
\* Cap on the number of Arc<Inner> allocations (Xlog::new / Xlog::get).
MaxArc == 3
\* Cap on the number of steps kept in the log of steps.
MaxTrace == 8
\* Cap on the number of steps of the runs that share one instance.
MaxShared == 6

Owners == 1..NumOwners
Threads == 1..NumThreads
ArcIds == 1..MaxArc
InstIds == 1..MaxArc

\* ----------------------------------------------------------------- strings
EmptyStr == << >>
\* "a", "d", "k", "c" as byte sequences
StrA == <<97>>
StrDir == <<100>>
StrKey == <<107>>
StrCache == <<99>>
\* "xlog", the fallback literal of Drop for Inner
StrXlog == <<120, 108, 111, 103>>
\* "<invalid>", the fallback literal of to_cstring
StrInvalid == <<60, 105, 110, 118, 97, 108, 105, 100, 62>>
\* "app", "tag", "hello"
StrApp == <<97, 112, 112>>
StrTag == <<116, 97, 103>>
StrHello == <<104, 101, 108, 108, 111>>
\* "\0", "a\0" and "\0k": strings with an embedded terminator
StrNul == <<0>>
StrANul == <<97, 0>>
StrNulK == <<0, 107>>

NullPtr == [null |-> TRUE, s |-> EmptyStr]
Ptr(s) == [null |-> FALSE, s |-> s]

None == [some |-> FALSE, v |-> EmptyStr]
Some(s) == [some |-> TRUE, v |-> s]

HasNul(s) == \E i \in 1..Len(s) : s[i] = 0

IsNotNul(b) == b # 0

\* s.replace('\0', "")
StripNul(s) == SelectSeq(s, IsNotNul)

\* CString::new(s): an error if s has an interior terminator
CStringNew(s) == [ok |-> ~HasNul(s), s |-> IF HasNul(s) THEN EmptyStr ELSE s]

\* A plausible slip: the string is converted as it is
to_cstring_unclean(s) ==
    Ptr(IF CStringNew(s).ok THEN CStringNew(s).s ELSE StrInvalid)

\* to_cstring: the C string the returned pointer refers to.  The embedded
\* terminators are removed, then CString::new(clean) or "<invalid>".
to_cstring(s) ==
    LET clean == IF HasNul(s) THEN StripNul(s) ELSE s IN
    Ptr(IF CStringNew(clean).ok THEN CStringNew(clean).s ELSE StrInvalid)

\* CStringHolder::new(s).as_ptr(): the same cleaning, with "" as fallback
CStringHolderNew(s) ==
    LET clean == IF HasNul(s) THEN StripNul(s) ELSE s IN
    Ptr(IF CStringNew(clean).ok THEN CStringNew(clean).s ELSE EmptyStr)

\* ------------------------------------------------------------------ levels
kLevelVerbose == 0
kLevelDebug == 1
kLevelInfo == 2
kLevelWarn == 3
kLevelError == 4
kLevelFatal == 5
kLevelNone == 6

\* LogLevel::as_sys as c_int (LogLevel is modelled by its ordinal)
LevelAsSys(level) == level

\* The LogLevel of a native level: the match of Xlog::level
LevelFromSys(value) == IF value \in kLevelVerbose..kLevelFatal THEN value ELSE kLevelNone

kAppenderAsync == 0
kAppenderSync == 1
kZlib == 0
kZstd == 1

\* ------------------------------------------------------------------ config
\* XlogConfig::new(log_dir, name_prefix): required fields plus defaults
XlogConfigNew(log_dir, name_prefix) ==
    [log_dir |-> log_dir, name_prefix |-> name_prefix,
     pub_key |-> None, cache_dir |-> None, cache_days |-> 0,
     mode |-> kAppenderAsync, compress_mode |-> kZlib, compress_level |-> 6]

\* A plausible slip: an unset field becomes an empty C string
OptToPtrEmptyForNone(o) == IF o.some THEN to_cstring(o.v) ELSE Ptr(EmptyStr)

\* Option<&str>.map(to_cstring).unwrap_or(ptr::null())
OptToPtr(o) == IF o.some THEN to_cstring(o.v) ELSE NullPtr

\* XlogConfig::to_sys: the MarsXlogConfig handed to the native engine
to_sys(config) ==
    [mode |-> config.mode,
     logdir |-> to_cstring(config.log_dir),
     nameprefix |-> to_cstring(config.name_prefix),
     pub_key |-> OptToPtr(config.pub_key),
     compress_mode |-> config.compress_mode,
     compress_level |-> config.compress_level,
     cache_dir |-> OptToPtr(config.cache_dir),
     cache_days |-> config.cache_days]

\* A plausible slip: only log_dir is checked
ConfigInvalidLogDirOnly(config) == config.log_dir = EmptyStr

\* The required-field check of Xlog::new, appender_open and oneshot_flush
ConfigInvalid(config) ==
    config.log_dir = EmptyStr \/ config.name_prefix = EmptyStr

\* A MarsXlogConfig value for calls that carry none
NoSysConfig == to_sys(XlogConfigNew(EmptyStr, EmptyStr))

\* ------------------------------------------------------------------ inputs
NameInputs == {StrA}
\* Levels given at creation and to writes in the lifecycle specifications:
\* a write at Debug is suppressed, a write at Info goes through
CreateLevelInputs == {kLevelInfo}
WriteLevelInputs == {kLevelDebug, kLevelInfo}
\* Valid configurations, one per name
LifeConfigs == {XlogConfigNew(StrDir, n) : n \in NameInputs}
\* Configurations given to Xlog::new by Rust callers
ConfigInputs ==
    {[XlogConfigNew(d, n) EXCEPT !.pub_key = k, !.cache_dir = c] :
        d \in {EmptyStr, StrDir}, n \in {EmptyStr, StrA},
        k \in {None, Some(EmptyStr), Some(StrKey)},
        c \in {None, Some(EmptyStr), Some(StrCache)}}

\* ------------------------------------------------------------------- state
VARIABLES
    aInst,      \* Inner.instance of each Arc<Inner>
    aName,      \* Inner.name_prefix of each Arc<Inner>
    strong,     \* strong count of each Arc<Inner>; 0 once dropped
    nextArc,    \* next Arc<Inner> to allocate
    own,        \* Rust owners: the Xlog value each holds and its position
    LOGGERS,    \* the registry table: id -> Arc<Inner> (0: absent)
    NEXT_ID,    \* the registry id counter
    thr,        \* bridge threads: position, local handle, id, level
    nName,      \* native engine: name of each instance
    nState,     \* native engine: "none" | "live" | "released"
    nLevel,     \* native engine: configured minimum level
    nextInst,   \* native engine: next instance id
    relCalls,   \* release calls issued by Drop for Inner, per Inner.instance
    uaf,        \* a native call was made on an instance that is not live
    issued,     \* the ids returned by next_id, in allocation order
    removed,    \* the ids for which remove_logger returned true
    layer,      \* the XlogLayer's LayerState: logger, enabled, level
    evt,        \* on_event calls in progress, per thread
    lastOp      \* the last step: operation, inputs, result, native calls made

vars == <<aInst, aName, strong, nextArc, own, LOGGERS, NEXT_ID, thr,
          nName, nState, nLevel, nextInst, relCalls, uaf, issued, removed,
          layer, evt, lastOp>>

arcVars == <<aInst, aName, strong, nextArc>>
nativeVars == <<nName, nState, nLevel, nextInst>>
regVars == <<LOGGERS, NEXT_ID, issued, removed>>
layerVars == <<layer, evt>>

\* One native call: function, instance argument, name argument, config
\* argument, level argument, flag argument and return value.
\* XLoggerInfo and the message of a call that carries none
NoInfo == [level |-> 0, tag |-> NullPtr, filename |-> NullPtr,
           func_name |-> NullPtr, line |-> 0, pid |-> 0, tid |-> 0,
           maintid |-> 0, log |-> NullPtr]

\* info: the XLoggerInfo and message of a write; cap: the buffer length
\* argument of a variable-length query; buf: the C string the buffer holds
\* when the query returns.
Call(fn, inst, name, cfg, level, flag, ret) ==
    [fn |-> fn, inst |-> inst, name |-> name, cfg |-> cfg, level |-> level,
     flag |-> flag, ret |-> ret, info |-> NoInfo, cap |-> 0, buf |-> EmptyStr]

NoConfig == XlogConfigNew(EmptyStr, EmptyStr)

\* One entry of the log of steps
Step(op, res, arc, calls) == [op |-> op, res |-> res, arc |-> arc, calls |-> calls]

\* The strings a foreign caller hands to a bridge constructor
Foreign(log_dir, name_prefix, pub_key, cache_dir) ==
    [log_dir |-> log_dir, name_prefix |-> name_prefix, pub_key |-> pub_key,
     cache_dir |-> cache_dir]

NoForeign == Foreign(EmptyStr, EmptyStr, None, None)

\* The record of one step.  arc: the Arc<Inner> of the handle returned (0:
\* none); id: the registry id given or returned; api and ret: the bridge
\* function and its integer return value; out: the sequence returned;
\* name: the name a lookup was given; ffi: the strings a bridge constructor
\* was given; err: the message of the error returned; action: the
\* FileIoAction returned; trace: the steps so far, kept when tracing is on.
Op(op, cfg, id, res, arc, calls) ==
    [op |-> op, cfg |-> cfg, id |-> id, res |-> res, arc |-> arc, calls |-> calls,
     api |-> "", ret |-> 0, out |-> << >>,
     name |-> EmptyStr, ffi |-> NoForeign, err |-> EmptyStr, action |-> "",
     tracing |-> lastOp.tracing,
     trace |-> IF lastOp.tracing
               THEN Append(lastOp.trace, Step(op, res, arc, calls))
               ELSE << >>]

\* A u32 as its two 16-bit halves
U32(hi, lo) == [hi |-> hi, lo |-> lo]
U32Of(n) == U32(n \div 65536, n % 65536)

\* The arguments of a write: tag, file, func, line (a u32) and message
WriteArgs(tag, file, func, line, msg) ==
    [tag |-> tag, file |-> file, func |-> func, line |-> line, msg |-> msg]

NoWrite == WriteArgs(None, EmptyStr, EmptyStr, U32Of(0), EmptyStr)

IdleOwner == [arc |-> 0, pc |-> "idle", lvl |-> 0, w |-> NoWrite, calls |-> << >>]
IdleThread == [pc |-> "idle", arc |-> 0, id |-> 0, lvl |-> 0]
\* The level each thread's set_level call in progress is about to store
\* (-1: no call in progress)
NoPending == [t \in Threads |-> -1]

NoLayer == [arc |-> 0, enabled |-> FALSE, level |-> 0, pending |-> NoPending,
            tag |-> None, include_spans |-> FALSE]

\* Option<u32>
NoLine == [some |-> FALSE, v |-> U32Of(0)]
SomeLine(n) == [some |-> TRUE, v |-> U32Of(n)]

\* One tracing event: the level, name, target, file, module_path and line of
\* its metadata, the fields it records in order (each a name and a rendered
\* value), and the names of the spans of its scope from the root
Event(level, name, target, file, module, line, recs, scope) ==
    [level |-> level, name |-> name, target |-> target, file |-> file,
     module |-> module, line |-> line, recs |-> recs, scope |-> scope]

NoEvent == Event("", EmptyStr, EmptyStr, None, None, NoLine, << >>, << >>)

IdleEvent == [pc |-> "idle", lvl |-> 0, enabled |-> FALSE, min |-> 0, calls |-> << >>,
              e |-> NoEvent]

InitOp(tracing) ==
    [op |-> "init", cfg |-> NoConfig, id |-> 0, res |-> "Ok", arc |-> 0,
     calls |-> << >>, api |-> "", ret |-> 0, out |-> << >>,
     name |-> EmptyStr, ffi |-> NoForeign, err |-> EmptyStr, action |-> "",
     tracing |-> tracing, trace |-> << >>]

InitState ==
    /\ aInst = [a \in ArcIds |-> 0]
    /\ aName = [a \in ArcIds |-> EmptyStr]
    /\ strong = [a \in ArcIds |-> 0]
    /\ nextArc = 1
    /\ own = [o \in Owners |-> IdleOwner]
    /\ LOGGERS = [i \in ArcIds |-> 0]
    /\ NEXT_ID = 1
    /\ thr = [t \in Threads |-> IdleThread]
    /\ nName = [i \in InstIds |-> EmptyStr]
    /\ nState = [i \in InstIds |-> "none"]
    /\ nLevel = [i \in InstIds |-> 0]
    /\ nextInst = 1
    /\ relCalls = [i \in InstIds |-> 0]
    /\ uaf = FALSE
    /\ issued = << >>
    /\ removed = {}
    /\ layer = NoLayer
    /\ evt = [t \in Threads |-> IdleEvent]

Init == InitState /\ lastOp = InitOp(FALSE)

\* ----------------------------------------------------------- native engine
\* The live instance registered under a name (0: none)
NativeLookup(name) ==
    IF \E i \in InstIds : nState[i] = "live" /\ nName[i] = name
    THEN CHOOSE i \in InstIds : nState[i] = "live" /\ nName[i] = name
    ELSE 0

\* mars_xlog_new_instance: 0 on failure, otherwise a new instance registered
\* under cfg.nameprefix.  The contract does not say what a create under a
\* name that has a live instance returns; the specifications below create
\* only under names that have none (FreshName).
mars_xlog_new_instance_ret(cfg, ok) == IF ok THEN nextInst ELSE 0

mars_xlog_new_instance(cfg, level, ok) ==
    IF ok
    THEN /\ nName' = [nName EXCEPT ![nextInst] = cfg.nameprefix.s]
         /\ nState' = [nState EXCEPT ![nextInst] = "live"]
         /\ nLevel' = [nLevel EXCEPT ![nextInst] = level]
         /\ nextInst' = nextInst + 1
    ELSE UNCHANGED nativeVars

\* mars_xlog_get_instance: 0 if the instance does not exist
mars_xlog_get_instance(name) == NativeLookup(name.s)

\* mars_xlog_release_instance: every handle for the name becomes invalid
mars_xlog_release_instance(name) ==
    LET i == NativeLookup(name.s) IN
    /\ nState' = IF i # 0 THEN [nState EXCEPT ![i] = "released"] ELSE nState
    /\ UNCHANGED <<nName, nLevel, nextInst>>

\* mars_xlog_is_enabled on a live instance
LevelEnabled(min, level) == min # kLevelNone /\ level >= min

\* The possible answers of mars_xlog_is_enabled(inst, level); a call on an
\* instance that is not live may answer anything.
mars_xlog_is_enabled(inst, level) ==
    IF inst \in InstIds /\ nState[inst] = "live"
    THEN {LevelEnabled(nLevel[inst], level)}
    ELSE BOOLEAN

\* A plausible slip: the level does not reach the shared instance
mars_xlog_set_level_lost(inst, level) == UNCHANGED nativeVars

\* mars_xlog_set_level on a live instance
mars_xlog_set_level(inst, level) ==
    /\ nLevel' = IF inst \in InstIds /\ nState[inst] = "live"
                 THEN [nLevel EXCEPT ![inst] = level] ELSE nLevel
    /\ UNCHANGED <<nName, nState, nextInst>>

\* The possible answers of mars_xlog_get_level(inst)
mars_xlog_get_level(inst) ==
    IF inst \in InstIds /\ nState[inst] = "live" THEN {nLevel[inst]}
    ELSE kLevelVerbose..kLevelNone

\* A native call taking an instance argument is a use of that instance
NativeUse(inst) == uaf' = (uaf \/ ~(inst \in InstIds /\ nState[inst] = "live"))

\* Native call records
CallNew(cfg, level, ret) == Call("mars_xlog_new_instance", 0, NullPtr, cfg, level, 0, ret)
CallGet(name, ret) == Call("mars_xlog_get_instance", 0, name, NoSysConfig, 0, 0, ret)
CallRelease(name) == Call("mars_xlog_release_instance", 0, name, NoSysConfig, 0, 0, 0)
CallOpen(cfg, level) == Call("mars_xlog_appender_open", 0, NullPtr, cfg, level, 0, 0)
CallOneshot(cfg, action, ret) == Call("mars_xlog_oneshot_flush", 0, NullPtr, cfg, 0, action, ret)
CallIsEnabled(inst, level, ret) == Call("mars_xlog_is_enabled", inst, NullPtr, NoSysConfig, level, 0, ret)
CallWrite(inst, info) ==
    [Call("mars_xlog_write", inst, NullPtr, NoSysConfig, info.level, 0, 0)
        EXCEPT !.info = info]
CallFlush(inst, sync) == Call("mars_xlog_flush", inst, NullPtr, NoSysConfig, 0, sync, 0)
CallSetLevel(inst, level) == Call("mars_xlog_set_level", inst, NullPtr, NoSysConfig, level, 0, 0)
CallGetLevel(inst, ret) == Call("mars_xlog_get_level", inst, NullPtr, NoSysConfig, 0, 0, ret)

\* A plausible slip: the flag is dropped
BoolIntZero(b) == 0

\* `if sync { 1 } else { 0 }`, and a c_int answer read as a bool
BoolInt(b) == IF b THEN 1 ELSE 0

\* ------------------------------------------------------ Arc<Inner> and Xlog
\* Arc::new(Inner { instance, name_prefix })
ArcNew(instance, name_prefix) ==
    /\ aInst' = [aInst EXCEPT ![nextArc] = instance]
    /\ aName' = [aName EXCEPT ![nextArc] = name_prefix]
    /\ strong' = [strong EXCEPT ![nextArc] = 1]
    /\ nextArc' = nextArc + 1

\* The name Drop for Inner passes to the native release:
\* CString::new(name_prefix) or, when that fails, "xlog"
DropName(name_prefix) == Ptr(IF HasNul(name_prefix) THEN StrXlog ELSE name_prefix)

\* Drop for Inner
InnerDrop(a) ==
    /\ mars_xlog_release_instance(DropName(aName[a]))
    /\ relCalls' = [relCalls EXCEPT ![aInst[a]] = @ + 1]

\* A plausible slip: the release runs at every drop of an Xlog value
XlogDropEager(a) ==
    /\ strong' = [strong EXCEPT ![a] = @ - 1]
    /\ InnerDrop(a)
    /\ UNCHANGED <<aInst, aName, nextArc>>

\* Drop of one Xlog value: Arc::drop, and Drop for Inner on the last one
XlogDrop(a) ==
    /\ strong' = [strong EXCEPT ![a] = @ - 1]
    /\ IF strong[a] = 1 THEN InnerDrop(a) ELSE UNCHANGED <<nativeVars, relCalls>>
    /\ UNCHANGED <<aInst, aName, nextArc>>

XlogDropCalls(a) ==
    IF strong[a] = 1 THEN <<CallRelease(DropName(aName[a]))>> ELSE << >>

\* A plausible slip: the clone shares the pointer without counting it
XlogCloneNoCount(a) == UNCHANGED arcVars

\* Xlog::clone: Arc::clone
XlogClone(a) ==
    /\ strong' = [strong EXCEPT ![a] = @ + 1]
    /\ UNCHANGED <<aInst, aName, nextArc>>

\* A plausible slip: a zero instance is wrapped like any other
InitFailedNever(instance) == FALSE

\* `if instance == 0 { return Err(InitFailed) }`
InitFailed(instance) == instance = 0

\* Xlog::new: result, handle and native calls, for the native outcome `ok`
XlogNewRes(config, ok) ==
    IF ConfigInvalid(config) THEN "InvalidConfig"
    ELSE IF InitFailed(mars_xlog_new_instance_ret(to_sys(config), ok)) THEN "InitFailed"
    ELSE "Ok"

XlogNewArc(config, ok) == IF XlogNewRes(config, ok) = "Ok" THEN nextArc ELSE 0

XlogNewCalls(config, level, ok) ==
    IF ConfigInvalid(config) THEN << >>
    ELSE <<CallNew(to_sys(config), LevelAsSys(level),
                   mars_xlog_new_instance_ret(to_sys(config), ok))>>

XlogNew(config, level, ok) ==
    IF ConfigInvalid(config) THEN UNCHANGED <<arcVars, nativeVars>>
    ELSE /\ mars_xlog_new_instance(to_sys(config), LevelAsSys(level), ok)
         /\ IF InitFailed(mars_xlog_new_instance_ret(to_sys(config), ok))
            THEN UNCHANGED arcVars
            ELSE ArcNew(mars_xlog_new_instance_ret(to_sys(config), ok),
                        config.name_prefix)

\* Xlog::get: CString::new(name_prefix).ok()? rejects an embedded terminator
XlogGetRet(name_prefix) ==
    IF HasNul(name_prefix) THEN 0 ELSE mars_xlog_get_instance(Ptr(name_prefix))

XlogGetCalls(name_prefix) ==
    IF HasNul(name_prefix) THEN << >>
    ELSE <<CallGet(Ptr(name_prefix), XlogGetRet(name_prefix))>>

XlogGet(name_prefix) ==
    IF XlogGetRet(name_prefix) = 0 THEN UNCHANGED arcVars
    ELSE ArcNew(XlogGetRet(name_prefix), name_prefix)

XlogGetArc(name_prefix) == IF XlogGetRet(name_prefix) = 0 THEN 0 ELSE nextArc

\* ------------------------------------------------------------- Rust owners
\* let h = Xlog::new(config, level)
OwnerNew(o, config, level, ok) ==
    /\ own[o] = IdleOwner
    /\ nextArc <= MaxArc
    /\ XlogNew(config, level, ok)
    /\ own' = [own EXCEPT ![o].arc = XlogNewArc(config, ok)]
    /\ lastOp' = Op("Xlog::new", config, 0, XlogNewRes(config, ok),
                    XlogNewArc(config, ok), XlogNewCalls(config, level, ok))
    /\ UNCHANGED <<regVars, thr, relCalls, uaf, layerVars>>

\* let h = Xlog::get(name)
OwnerGet(o, name_prefix) ==
    /\ own[o] = IdleOwner
    /\ nextArc <= MaxArc
    /\ XlogGet(name_prefix)
    /\ own' = [own EXCEPT ![o].arc = XlogGetArc(name_prefix)]
    /\ lastOp' = [Op("Xlog::get", NoConfig, 0,
                     IF XlogGetRet(name_prefix) = 0 THEN "None" ELSE "Some",
                     XlogGetArc(name_prefix), XlogGetCalls(name_prefix))
                     EXCEPT !.name = name_prefix]
    /\ UNCHANGED <<regVars, thr, nativeVars, relCalls, uaf, layerVars>>

\* let h2 = h.clone()
OwnerClone(o, p) ==
    /\ own[o].arc # 0
    /\ own[p] = IdleOwner
    /\ XlogClone(own[o].arc)
    /\ own' = [own EXCEPT ![p].arc = own[o].arc]
    /\ lastOp' = Op("Xlog::clone", NoConfig, 0, "Ok", own[o].arc, << >>)
    /\ UNCHANGED <<regVars, thr, nativeVars, relCalls, uaf, layerVars>>

\* drop(h): not while a call on h is in progress
OwnerDrop(o) ==
    /\ own[o].arc # 0
    /\ own[o].pc = "idle"
    /\ XlogDrop(own[o].arc)
    /\ own' = [own EXCEPT ![o] = IdleOwner]
    /\ lastOp' = Op("drop", NoConfig, 0, "Ok", own[o].arc, XlogDropCalls(own[o].arc))
    /\ UNCHANGED <<regVars, thr, uaf, layerVars>>

\* A plausible slip: the caller's tag is dropped
TagOrPrefixAlways(tag, name_prefix) == name_prefix

\* tag.unwrap_or(&self.inner.name_prefix)
TagOrPrefix(tag, name_prefix) == IF tag.some THEN tag.v ELSE name_prefix

\* `line as c_int`: a u32 reinterpreted as a 32-bit signed integer
U32AsCInt(line) ==
    IF line.hi >= 32768 THEN (line.hi - 65536) * 65536 + line.lo
    ELSE line.hi * 65536 + line.lo

\* What write_with_meta hands to mars_xlog_write: the XLoggerInfo and the
\* message; an absent tag is replaced by the handle's name_prefix
WriteInfo(name_prefix, level, w) ==
    [level |-> LevelAsSys(level),
     tag |-> to_cstring(TagOrPrefix(w.tag, name_prefix)),
     filename |-> to_cstring(w.file),
     func_name |-> to_cstring(w.func),
     line |-> U32AsCInt(w.line),
     pid |-> -1, tid |-> -1, maintid |-> -1,
     log |-> to_cstring(w.msg)]

\* The caller location Location::caller() gives to Xlog::log
CallerFile == StrCache
CallerLine == 7

\* The write_with_meta call that log and write make once enabled
MetaArgs(path, tag, msg) ==
    IF path = "log" THEN WriteArgs(tag, CallerFile, EmptyStr, U32Of(CallerLine), msg)
    ELSE WriteArgs(tag, EmptyStr, EmptyStr, U32Of(0), msg)

\* A plausible slip: the call goes on whatever is_enabled answered
ShortCircuitNever(en) == FALSE

\* `if !self.is_enabled(level) { return; }`
ShortCircuit(en) == ~en

\* h.log(level, tag, msg) and h.write(level, tag, msg): the is_enabled check,
\* up to the call of write_with_meta
OwnerLog(o, path, level, tag, msg, en) ==
    /\ own[o].arc # 0
    /\ own[o].pc = "idle"
    /\ en \in mars_xlog_is_enabled(aInst[own[o].arc], LevelAsSys(level))
    /\ NativeUse(aInst[own[o].arc])
    /\ own' = [own EXCEPT ![o] =
                 IF ShortCircuit(en) THEN own[o]
                 ELSE [arc |-> own[o].arc, pc |-> "meta", lvl |-> level,
                       w |-> MetaArgs(path, tag, msg),
                       calls |-> <<CallIsEnabled(aInst[own[o].arc],
                                                 LevelAsSys(level), BoolInt(en))>>]]
    /\ lastOp' = Op(path, NoConfig, 0, IF en THEN "true" ELSE "false", own[o].arc,
                    <<CallIsEnabled(aInst[own[o].arc], LevelAsSys(level), BoolInt(en))>>)
    /\ UNCHANGED <<arcVars, regVars, thr, nativeVars, relCalls, layerVars>>

\* h.write_with_meta(level, ..): the is_enabled check, called directly or
\* from log / write
OwnerWriteCheck(o, level, w, en) ==
    /\ own[o].arc # 0
    /\ \/ own[o].pc = "idle"
       \/ own[o].pc = "meta" /\ level = own[o].lvl /\ w = own[o].w
    /\ en \in mars_xlog_is_enabled(aInst[own[o].arc], LevelAsSys(level))
    /\ NativeUse(aInst[own[o].arc])
    /\ own' = [own EXCEPT ![o] =
                 IF ShortCircuit(en)
                 THEN [IdleOwner EXCEPT !.arc = own[o].arc]
                 ELSE [arc |-> own[o].arc, pc |-> "write", lvl |-> level, w |-> w,
                       calls |-> Append(own[o].calls,
                                        CallIsEnabled(aInst[own[o].arc],
                                                      LevelAsSys(level), BoolInt(en)))]]
    /\ lastOp' = Op("write_with_meta:is_enabled", NoConfig, 0,
                    IF en THEN "true" ELSE "false", own[o].arc,
                    <<CallIsEnabled(aInst[own[o].arc], LevelAsSys(level), BoolInt(en))>>)
    /\ UNCHANGED <<arcVars, regVars, thr, nativeVars, relCalls, layerVars>>

\* h.write_with_meta(level, ..): the native write
OwnerWrite(o) ==
    /\ own[o].pc = "write"
    /\ NativeUse(aInst[own[o].arc])
    /\ own' = [own EXCEPT ![o] = [IdleOwner EXCEPT !.arc = own[o].arc]]
    /\ lastOp' = Op("write_with_meta:write", NoConfig, 0, "Ok", own[o].arc,
                    <<CallWrite(aInst[own[o].arc],
                                WriteInfo(aName[own[o].arc], own[o].lvl, own[o].w))>>)
    /\ UNCHANGED <<arcVars, regVars, thr, nativeVars, relCalls, layerVars>>

\* h.set_level(level)
OwnerSetLevel(o, level) ==
    /\ own[o].arc # 0
    /\ own[o].pc = "idle"
    /\ mars_xlog_set_level(aInst[own[o].arc], LevelAsSys(level))
    /\ NativeUse(aInst[own[o].arc])
    /\ lastOp' = Op("set_level", NoConfig, 0, "Ok", own[o].arc,
                    <<CallSetLevel(aInst[own[o].arc], LevelAsSys(level))>>)
    /\ UNCHANGED <<arcVars, own, regVars, thr, relCalls, layerVars>>

\* h.level(): the level the native engine reports, as a LogLevel
OwnerLevel(o, lv) ==
    /\ own[o].arc # 0
    /\ own[o].pc = "idle"
    /\ lv \in mars_xlog_get_level(aInst[own[o].arc])
    /\ NativeUse(aInst[own[o].arc])
    /\ lastOp' = [Op("level", NoConfig, 0, "Ok", own[o].arc,
                     <<CallGetLevel(aInst[own[o].arc], lv)>>)
                     EXCEPT !.ret = LevelFromSys(lv)]
    /\ UNCHANGED <<arcVars, own, regVars, thr, nativeVars, relCalls, layerVars>>

\* h.instance()
OwnerInstance(o) ==
    /\ own[o].arc # 0
    /\ own[o].pc = "idle"
    /\ lastOp' = [Op("instance", NoConfig, 0, "Ok", own[o].arc, << >>)
                     EXCEPT !.ret = aInst[own[o].arc]]
    /\ UNCHANGED <<arcVars, own, regVars, thr, nativeVars, relCalls, uaf, layerVars>>

\* h.flush(sync)
OwnerFlush(o, sync) ==
    /\ own[o].arc # 0
    /\ own[o].pc = "idle"
    /\ NativeUse(aInst[own[o].arc])
    /\ lastOp' = Op("flush", NoConfig, 0, "Ok", own[o].arc,
                    <<CallFlush(aInst[own[o].arc], BoolInt(sync))>>)
    /\ UNCHANGED <<arcVars, own, regVars, thr, nativeVars, relCalls, layerVars>>

\* ------------------------------------------------- numeric handle registry
HandleInputs == 0..MaxArc

\* store.get(&id)
TableGet(id) == IF id \in DOMAIN LOGGERS THEN LOGGERS[id] ELSE 0

\* A plausible slip: a freed id is handed out again
next_id_reuse(id) ==
    /\ id = CHOOSE i \in ArcIds : LOGGERS[i] = 0 /\ \A j \in 1..(i - 1) : LOGGERS[j] # 0
    /\ NEXT_ID' = NEXT_ID + 1

\* A plausible slip: the counter is read but not advanced
next_id_load(id) ==
    /\ id = NEXT_ID
    /\ NEXT_ID' = NEXT_ID

\* next_id: NEXT_ID.fetch_add(1, SeqCst) returns the previous value
next_id(id) ==
    /\ id = NEXT_ID
    /\ NEXT_ID' = NEXT_ID + 1

\* insert_logger, first half: the id is allocated before the lock is taken
InsertLoggerAlloc(t, a) ==
    \E id \in ArcIds :
        /\ next_id(id)
        /\ issued' = Append(issued, id)
        /\ thr' = [thr EXCEPT ![t] = [pc |-> "insert", arc |-> a, id |-> id, lvl |-> 0]]

\* A plausible slip: the handle is returned without a new strong reference
get_logger_borrow(id) == UNCHANGED arcVars

\* get_logger: store.get(&id).cloned(), under the lock
get_logger(id) ==
    IF TableGet(id) # 0 THEN XlogClone(TableGet(id)) ELSE UNCHANGED arcVars

\* A plausible slip: the entry is reported but left in the table
remove_logger_keep(id) ==
    /\ UNCHANGED LOGGERS
    /\ UNCHANGED <<arcVars, nativeVars, relCalls>>

\* remove_logger: store.remove(&id); the removed Xlog is dropped
remove_logger(id) ==
    IF TableGet(id) # 0
    THEN /\ LOGGERS' = [LOGGERS EXCEPT ![id] = 0]
         /\ XlogDrop(LOGGERS[id])
    ELSE /\ UNCHANGED LOGGERS
         /\ UNCHANGED <<arcVars, nativeVars, relCalls>>

\* ---------------------------------------------------------- bridge threads
\* The configuration the bridge builds: an empty pub_key or cache_dir is
\* left unset
JniOpt(o) == IF o.some /\ o.v # EmptyStr THEN o ELSE None

JniConfig(log_dir, name_prefix, pub_key, cache_dir) ==
    [XlogConfigNew(log_dir, name_prefix) EXCEPT
        !.pub_key = JniOpt(pub_key), !.cache_dir = JniOpt(cache_dir)]

\* The strings the Java caller passes to nativeCreateLogger
JniInputs ==
    {[log_dir |-> StrDir, name_prefix |-> n, pub_key |-> None, cache_dir |-> None] :
        n \in NameInputs}

\* nativeCreateLogger up to next_id: the configuration is built, then
\* Xlog::init, then insert_logger
JniCreateLogger(t, j, level, ok) ==
    LET config == JniConfig(j.log_dir, j.name_prefix, j.pub_key, j.cache_dir) IN
    /\ thr[t].pc = "idle"
    /\ nextArc <= MaxArc
    /\ XlogNew(config, level, ok)
    /\ IF XlogNewRes(config, ok) = "Ok"
       THEN InsertLoggerAlloc(t, XlogNewArc(config, ok))
       ELSE UNCHANGED <<thr, NEXT_ID, issued>>
    /\ lastOp' = [Op("nativeCreateLogger", config, 0, XlogNewRes(config, ok),
                     XlogNewArc(config, ok), XlogNewCalls(config, level, ok))
                     EXCEPT !.ffi = j]
    /\ UNCHANGED <<own, LOGGERS, removed, relCalls, uaf, layerVars>>

\* nativeGetLogger up to next_id: Xlog::get, then insert_logger
JniGetLogger(t, name_prefix) ==
    /\ thr[t].pc = "idle"
    /\ nextArc <= MaxArc
    /\ XlogGet(name_prefix)
    /\ IF XlogGetRet(name_prefix) # 0
       THEN InsertLoggerAlloc(t, XlogGetArc(name_prefix))
       ELSE UNCHANGED <<thr, NEXT_ID, issued>>
    /\ lastOp' = Op("nativeGetLogger", NoConfig, 0,
                    IF XlogGetRet(name_prefix) = 0 THEN "None" ELSE "Some",
                    XlogGetArc(name_prefix), XlogGetCalls(name_prefix))
    /\ UNCHANGED <<own, LOGGERS, removed, nativeVars, relCalls, uaf, layerVars>>

\* insert_logger, second half: store.insert(id, logger) under the lock; the
\* bridge call returns id
JniInsert(t) ==
    /\ thr[t].pc = "insert"
    /\ LOGGERS' = [LOGGERS EXCEPT ![thr[t].id] = thr[t].arc]
    /\ thr' = [thr EXCEPT ![t] = IdleThread]
    /\ lastOp' = Op("insert_logger", NoConfig, thr[t].id, "Ok", thr[t].arc, << >>)
    /\ UNCHANGED <<arcVars, own, NEXT_ID, issued, removed, nativeVars, relCalls, uaf, layerVars>>

\* nativeReleaseLogger(handle)
JniReleaseLogger(t, handle) ==
    /\ thr[t].pc = "idle"
    /\ IF handle = 0
       THEN UNCHANGED <<LOGGERS, arcVars, nativeVars, relCalls, removed>>
       ELSE /\ remove_logger(handle)
            /\ removed' = IF TableGet(handle) # 0 THEN removed \cup {handle} ELSE removed
    /\ lastOp' = Op("nativeReleaseLogger", NoConfig, handle,
                    IF handle # 0 /\ TableGet(handle) # 0 THEN "true" ELSE "false",
                    TableGet(handle),
                    IF handle # 0 /\ TableGet(handle) # 0
                    THEN XlogDropCalls(TableGet(handle)) ELSE << >>)
    /\ UNCHANGED <<own, thr, NEXT_ID, issued, uaf, layerVars>>

\* The bridge function that continues at position `what` once get_logger
\* has returned a handle
BridgeApi(what) ==
    CASE what = "write:check" -> "nativeWrite"
      [] what = "write_with_meta:check" -> "nativeWriteWithMeta"
      [] what = "flush" -> "nativeFlush"
      [] what = "is_enabled" -> "nativeIsEnabled"
      [] what = "level" -> "nativeGetLevel"
      [] what = "set_level" -> "nativeSetLevel"
      [] what = "set_appender_mode" -> "nativeSetAppenderMode"
      [] what = "set_console_log_open" -> "nativeSetConsoleLogOpen"
      [] what = "set_max_file_size" -> "nativeSetMaxFileSize"
      [] what = "set_max_alive_time" -> "nativeSetMaxAliveTime"

\* The native function behind each mutator
MutatorFn(what) ==
    CASE what = "set_level" -> "mars_xlog_set_level"
      [] what = "set_appender_mode" -> "mars_xlog_set_appender_mode"
      [] what = "set_console_log_open" -> "mars_xlog_set_console_log_open"
      [] what = "set_max_file_size" -> "mars_xlog_set_max_file_size"
      [] what = "set_max_alive_time" -> "mars_xlog_set_max_alive_time"

MutatorOps == {"set_level", "set_appender_mode", "set_console_log_open",
               "set_max_file_size", "set_max_alive_time"}

\* A plausible slip: every bridge function answers 0 for a missing handle
MissRetZero(what) == 0

\* What a bridge function returns when get_logger finds nothing: nativeGetLevel
\* -1, nativeIsEnabled 0 (false), the others nothing
MissRet(what) == IF what = "level" THEN -1 ELSE 0

\* A bridge function taking a handle, up to get_logger(handle); it returns at
\* once when there is no such handle
JniGetHandle(t, handle, what, level) ==
    /\ thr[t].pc = "idle"
    /\ get_logger(handle)
    /\ thr' = IF TableGet(handle) # 0
              THEN [thr EXCEPT ![t] = [pc |-> what, arc |-> TableGet(handle),
                                       id |-> handle, lvl |-> level]]
              ELSE thr
    /\ lastOp' = [Op("get_logger", NoConfig, handle,
                     IF TableGet(handle) # 0 THEN "Some" ELSE "None",
                     TableGet(handle), << >>)
                     EXCEPT !.api = BridgeApi(what),
                            !.ret = IF TableGet(handle) # 0 THEN 0 ELSE MissRet(what)]
    /\ UNCHANGED <<own, regVars, nativeVars, relCalls, uaf, layerVars>>

\* nativeSetLevel, nativeSetAppenderMode, nativeSetConsoleLogOpen,
\* nativeSetMaxFileSize, nativeSetMaxAliveTime: the pass-through native call
\* with the argument given
JniMutator(t) ==
    /\ thr[t].pc \in MutatorOps
    /\ IF thr[t].pc = "set_level"
       THEN mars_xlog_set_level(aInst[thr[t].arc], LevelAsSys(thr[t].lvl))
       ELSE UNCHANGED nativeVars
    /\ NativeUse(aInst[thr[t].arc])
    /\ thr' = [thr EXCEPT ![t].pc = "drop"]
    /\ lastOp' = [Op(thr[t].pc, NoConfig, thr[t].id, "Ok", thr[t].arc,
                     <<Call(MutatorFn(thr[t].pc), aInst[thr[t].arc], NullPtr,
                            NoSysConfig, thr[t].lvl, 0, 0)>>)
                     EXCEPT !.api = BridgeApi(thr[t].pc)]
    /\ UNCHANGED <<arcVars, own, regVars, relCalls, layerVars>>

\* nativeIsEnabled: logger.is_enabled(level) as a jboolean
JniIsEnabled(t, en) ==
    /\ thr[t].pc = "is_enabled"
    /\ en \in mars_xlog_is_enabled(aInst[thr[t].arc], LevelAsSys(thr[t].lvl))
    /\ NativeUse(aInst[thr[t].arc])
    /\ thr' = [thr EXCEPT ![t].pc = "drop"]
    /\ lastOp' = [Op("is_enabled", NoConfig, thr[t].id,
                     IF en THEN "true" ELSE "false", thr[t].arc,
                     <<CallIsEnabled(aInst[thr[t].arc], LevelAsSys(thr[t].lvl), BoolInt(en))>>)
                     EXCEPT !.api = "nativeIsEnabled", !.ret = BoolInt(en)]
    /\ UNCHANGED <<arcVars, own, regVars, nativeVars, relCalls, layerVars>>

\* nativeGetLevel: logger.level() as its ordinal
JniGetLevel(t, lv) ==
    /\ thr[t].pc = "level"
    /\ lv \in mars_xlog_get_level(aInst[thr[t].arc])
    /\ NativeUse(aInst[thr[t].arc])
    /\ thr' = [thr EXCEPT ![t].pc = "drop"]
    /\ lastOp' = [Op("level", NoConfig, thr[t].id, "Ok", thr[t].arc,
                     <<CallGetLevel(aInst[thr[t].arc], lv)>>)
                     EXCEPT !.api = "nativeGetLevel", !.ret = LevelFromSys(lv)]
    /\ UNCHANGED <<arcVars, own, regVars, nativeVars, relCalls, layerVars>>

\* nativeWrite: logger.write checks is_enabled, then write_with_meta checks
\* it again
JniWriteCheck(t, en) ==
    /\ thr[t].pc \in {"write:check", "write_with_meta:check"}
    /\ en \in mars_xlog_is_enabled(aInst[thr[t].arc], LevelAsSys(thr[t].lvl))
    /\ NativeUse(aInst[thr[t].arc])
    /\ thr' = [thr EXCEPT ![t].pc =
                 IF ~en THEN "drop"
                 ELSE IF @ = "write:check" THEN "write_with_meta:check"
                 ELSE "write_with_meta:write"]
    /\ lastOp' = Op(thr[t].pc, NoConfig, thr[t].id,
                    IF en THEN "true" ELSE "false", thr[t].arc,
                    <<CallIsEnabled(aInst[thr[t].arc], LevelAsSys(thr[t].lvl), BoolInt(en))>>)
    /\ UNCHANGED <<arcVars, own, regVars, nativeVars, relCalls, layerVars>>

\* The tag and message the Java caller passes to nativeWrite: a null tag
JniWriteArgs == WriteArgs(None, EmptyStr, EmptyStr, U32Of(0), StrA)

\* nativeWrite: the native write of write_with_meta
JniWrite(t) ==
    /\ thr[t].pc = "write_with_meta:write"
    /\ NativeUse(aInst[thr[t].arc])
    /\ thr' = [thr EXCEPT ![t].pc = "drop"]
    /\ lastOp' = Op("write_with_meta:write", NoConfig, thr[t].id, "Ok", thr[t].arc,
                    <<CallWrite(aInst[thr[t].arc],
                                WriteInfo(aName[thr[t].arc], thr[t].lvl, JniWriteArgs))>>)
    /\ UNCHANGED <<arcVars, own, regVars, nativeVars, relCalls, layerVars>>

\* nativeFlush: logger.flush(sync)
JniFlush(t, sync) ==
    /\ thr[t].pc = "flush"
    /\ NativeUse(aInst[thr[t].arc])
    /\ thr' = [thr EXCEPT ![t].pc = "drop"]
    /\ lastOp' = Op("flush", NoConfig, thr[t].id, "Ok", thr[t].arc,
                    <<CallFlush(aInst[thr[t].arc], BoolInt(sync))>>)
    /\ UNCHANGED <<arcVars, own, regVars, nativeVars, relCalls, layerVars>>

\* The end of the bridge call: the local handle goes out of scope
JniDropLocal(t) ==
    /\ thr[t].pc = "drop"
    /\ XlogDrop(thr[t].arc)
    /\ thr' = [thr EXCEPT ![t] = IdleThread]
    /\ lastOp' = Op("drop", NoConfig, thr[t].id, "Ok", thr[t].arc,
                    XlogDropCalls(thr[t].arc))
    /\ UNCHANGED <<own, regVars, uaf, layerVars>>

\* ------------------------------------------------------ global entry points
\* A plausible slip: the match arms start at 0
FileIoActionFromZeroBased(value) ==
    CASE value = 0 -> "Success"
      [] value = 1 -> "Unnecessary"
      [] value = 2 -> "OpenFailed"
      [] value = 3 -> "ReadFailed"
      [] value = 4 -> "WriteFailed"
      [] value = 5 -> "CloseFailed"
      [] value = 6 -> "RemoveFailed"
      [] OTHER -> "None"

\* FileIoAction::from(c_int)
FileIoActionFrom(value) ==
    CASE value = 1 -> "Success"
      [] value = 2 -> "Unnecessary"
      [] value = 3 -> "OpenFailed"
      [] value = 4 -> "ReadFailed"
      [] value = 5 -> "WriteFailed"
      [] value = 6 -> "CloseFailed"
      [] value = 7 -> "RemoveFailed"
      [] OTHER -> "None"

\* The match of nativeOneshotFlush on the action returned
FileIoActionAsInt(action) ==
    CASE action = "None" -> 0
      [] action = "Success" -> 1
      [] action = "Unnecessary" -> 2
      [] action = "OpenFailed" -> 3
      [] action = "ReadFailed" -> 4
      [] action = "WriteFailed" -> 5
      [] action = "CloseFailed" -> 6
      [] action = "RemoveFailed" -> 7

ActionInputs == {0, 7, 8}

\* Xlog::appender_open(config, level)
AppenderOpen(config, level) ==
    /\ lastOp' = Op("Xlog::appender_open", config, 0,
                    IF ConfigInvalid(config) THEN "InvalidConfig" ELSE "Ok", 0,
                    IF ConfigInvalid(config) THEN << >>
                    ELSE <<CallOpen(to_sys(config), LevelAsSys(level))>>)
    /\ UNCHANGED <<arcVars, own, regVars, thr, nativeVars, relCalls, uaf, layerVars>>

\* Xlog::oneshot_flush(config): the native call answers ok and an action code
OneshotRes(config, ok) ==
    IF ConfigInvalid(config) THEN "InvalidConfig"
    ELSE IF BoolInt(ok) = 0 THEN "InitFailed" ELSE "Ok"

OneshotAction(config, ok, action) ==
    IF OneshotRes(config, ok) = "Ok" THEN FileIoActionFrom(action) ELSE ""

OneshotCalls(config, ok, action) ==
    IF ConfigInvalid(config) THEN << >>
    ELSE <<CallOneshot(to_sys(config), action, BoolInt(ok))>>

OneshotFlush(config, ok, action) ==
    /\ lastOp' = [Op("Xlog::oneshot_flush", config, 0, OneshotRes(config, ok), 0,
                     OneshotCalls(config, ok, action))
                     EXCEPT !.action = OneshotAction(config, ok, action)]
    /\ UNCHANGED <<arcVars, own, regVars, thr, nativeVars, relCalls, uaf, layerVars>>

\* nativeOneshotFlush: the configuration is built as in nativeCreateLogger,
\* then Xlog::oneshot_flush, then the match on its result
JniOneshotFlush(j, ok, action) ==
    LET config == JniConfig(j.log_dir, j.name_prefix, j.pub_key, j.cache_dir) IN
    /\ lastOp' = [Op("nativeOneshotFlush", config, 0, OneshotRes(config, ok), 0,
                     OneshotCalls(config, ok, action))
                     EXCEPT !.api = "nativeOneshotFlush",
                            !.ffi = j,
                            !.action = OneshotAction(config, ok, action),
                            !.ret = IF OneshotRes(config, ok) = "Ok"
                                    THEN FileIoActionAsInt(OneshotAction(config, ok, action))
                                    ELSE -1]
    /\ UNCHANGED <<arcVars, own, regVars, thr, nativeVars, relCalls, uaf, layerVars>>

\* ------------------------------------------------------------ tracing layer
\* tracing_level_to_log_level
tracing_level_to_log_level(level) ==
    CASE level = "TRACE" -> kLevelVerbose
      [] level = "DEBUG" -> kLevelDebug
      [] level = "INFO" -> kLevelInfo
      [] level = "WARN" -> kLevelWarn
      [] level = "ERROR" -> kLevelError

level_rank(level) == level
level_to_u8(level) == level_rank(level)
level_from_u8(value) == IF value \in 0..5 THEN value ELSE kLevelNone

\* A plausible slip: the comparison is the wrong way round
LevelGateReversed(level, min_level) == level_rank(level) <= level_rank(min_level)

\* A plausible slip: the stored minimum level is not consulted
LevelGateAlways(level, min_level) == TRUE

\* is_enabled_for, second half: level_rank(level) >= level_rank(min_level)
LevelGate(level, min_level) == level_rank(level) >= level_rank(min_level)

\* "message", the name of the field that carries the explicit message
StrMessage == <<109, 101, 115, 115, 97, 103, 101>>
\* "<unknown>", the fallback literal of on_event
StrUnknown == <<60, 117, 110, 107, 110, 111, 119, 110, 62>>
\* " ", "{", "}", "=", ", ", " > ", "[" and "] "
StrSpace == <<32>>
StrLBrace == <<123>>
StrRBrace == <<125>>
StrEq == <<61>>
StrCommaSpace == <<44, 32>>
StrArrow == <<32, 62, 32>>
StrLBracket == <<91>>
StrRBracketSpace == <<93, 32>>

\* One recorded field
Field(name, value) == [name |-> name, value |-> value]

\* EventVisitor::default()
NoVisitor == [message |-> None, fields |-> << >>]

\* EventVisitor::record_field
record_field(v, f) ==
    IF f.name = StrMessage THEN [v EXCEPT !.message = Some(f.value)]
    ELSE [v EXCEPT !.fields = Append(@, f)]

\* event.record(&mut visitor): the fields are visited in order
RECURSIVE EventRecord(_, _)
EventRecord(v, recs) ==
    IF recs = << >> THEN v ELSE EventRecord(record_field(v, Head(recs)), Tail(recs))

\* The loop of EventVisitor::finish: name=value, with ", " before every
\* field but the first
RECURSIVE FinishFields(_, _)
FinishFields(fields, idx) ==
    IF idx > Len(fields) THEN << >>
    ELSE (IF idx > 1 THEN StrCommaSpace ELSE << >>)
         \o fields[idx].name \o StrEq \o fields[idx].value
         \o FinishFields(fields, idx + 1)

\* EventVisitor::finish
finish(v) ==
    LET output == IF v.message.some THEN v.message.v ELSE << >> IN
    IF v.fields # << >>
    THEN output \o (IF output # << >> THEN StrSpace ELSE << >>)
         \o StrLBrace \o FinishFields(v.fields, 1) \o StrRBrace
    ELSE output

\* The span names of the scope from the root, joined by " > "
RECURSIVE SpanPath(_)
SpanPath(scope) ==
    IF scope = << >> THEN << >>
    ELSE IF Len(scope) = 1 THEN scope[1]
    ELSE scope[1] \o StrArrow \o SpanPath(Tail(scope))

\* A plausible slip: the event name is never substituted
NameIfEmptyNever(message, name) == message

\* `if message.is_empty() { message = metadata.name().to_string(); }`
NameIfEmpty(message, name) == IF message = << >> THEN name ELSE message

\* The message on_event forwards
EventMessage(lay, e) ==
    LET message == finish(EventRecord(NoVisitor, e.recs))
        spans == IF lay.include_spans THEN SpanPath(e.scope) ELSE << >>
        withSpans == IF spans = << >> THEN message
                     ELSE IF message = << >> THEN spans
                     ELSE StrLBracket \o spans \o StrRBracketSpace \o message
    IN NameIfEmpty(withSpans, e.name)

\* Option::unwrap_or
UnwrapOr(o, default) == IF o.some THEN o.v ELSE default

\* The write_with_meta arguments on_event builds from the event
EventArgs(lay, e) ==
    WriteArgs(Some(UnwrapOr(lay.tag, e.target)),
              UnwrapOr(e.file, StrUnknown),
              UnwrapOr(e.module, StrUnknown),
              UnwrapOr(e.line, U32Of(0)),
              EventMessage(lay, e))

\* XlogLayerConfig::new(level) and its builder methods
XlogLayerConfigNew(level) ==
    [enabled |-> TRUE, level |-> level, tag |-> None, include_spans |-> FALSE]

\* LayerState::new(logger, enabled, level) after logger.set_level(level)
LayerBuild(o, config) ==
    /\ mars_xlog_set_level(aInst[own[o].arc], LevelAsSys(config.level))
    /\ NativeUse(aInst[own[o].arc])
    /\ layer' = [arc |-> own[o].arc, enabled |-> config.enabled,
                 level |-> level_to_u8(config.level), pending |-> NoPending,
                 tag |-> config.tag, include_spans |-> config.include_spans]
    /\ own' = [own EXCEPT ![o] = IdleOwner]

\* XlogLayer::with_config(logger, config): the logger moves into the layer
LayerWithConfig(o, config) ==
    /\ layer = NoLayer
    /\ own[o].arc # 0
    /\ own[o].pc = "idle"
    /\ LayerBuild(o, config)
    /\ lastOp' = Op("XlogLayer::with_config", NoConfig, 0, "Ok", own[o].arc,
                    <<CallSetLevel(aInst[own[o].arc], LevelAsSys(config.level))>>)
    /\ UNCHANGED <<arcVars, regVars, thr, relCalls, evt>>

\* XlogLayer::new(logger): with_config at the level logger.level() reports
LayerNew(o, lv) ==
    /\ layer = NoLayer
    /\ own[o].arc # 0
    /\ own[o].pc = "idle"
    /\ lv \in mars_xlog_get_level(aInst[own[o].arc])
    /\ LayerBuild(o, XlogLayerConfigNew(LevelFromSys(lv)))
    /\ lastOp' = Op("XlogLayer::new", NoConfig, 0, "Ok", own[o].arc,
                    <<CallGetLevel(aInst[own[o].arc], lv),
                      CallSetLevel(aInst[own[o].arc], LevelAsSys(LevelFromSys(lv)))>>)
    /\ UNCHANGED <<arcVars, regVars, thr, relCalls, evt>>

\* XlogLayerHandle::set_enabled
HandleSetEnabled(enabled) ==
    /\ layer # NoLayer
    /\ layer' = [layer EXCEPT !.enabled = enabled]
    /\ lastOp' = Op("XlogLayerHandle::set_enabled", NoConfig, 0, "Ok", layer.arc, << >>)
    /\ UNCHANGED <<arcVars, own, regVars, thr, nativeVars, relCalls, uaf, evt>>

\* XlogLayerHandle::set_level called on thread t through a clone of the
\* handle, first half: logger.set_level(level)
HandleSetLevel(t, level) ==
    /\ layer # NoLayer
    /\ layer.pending[t] = -1
    /\ mars_xlog_set_level(aInst[layer.arc], LevelAsSys(level))
    /\ NativeUse(aInst[layer.arc])
    /\ layer' = [layer EXCEPT !.pending[t] = level]
    /\ lastOp' = Op("XlogLayerHandle::set_level", NoConfig, 0, "Ok", layer.arc,
                    <<CallSetLevel(aInst[layer.arc], LevelAsSys(level))>>)
    /\ UNCHANGED <<arcVars, own, regVars, thr, relCalls, evt>>

\* XlogLayerHandle::set_level, second half: state.level.store(..)
HandleStoreLevel(t) ==
    /\ layer.pending[t] # -1
    /\ layer' = [layer EXCEPT !.level = level_to_u8(layer.pending[t]),
                              !.pending[t] = -1]
    /\ lastOp' = Op("XlogLayerHandle::set_level:store", NoConfig, 0, "Ok", layer.arc, << >>)
    /\ UNCHANGED <<arcVars, own, regVars, thr, nativeVars, relCalls, uaf, evt>>

\* on_event up to the load of state.enabled in is_enabled_for
EvtEnabledBody(t, e) ==
    /\ layer # NoLayer
    /\ evt[t].pc = "idle"
    /\ evt' = IF tracing_level_to_log_level(e.level) # kLevelNone /\ layer.enabled
              THEN [evt EXCEPT ![t] = [pc |-> "min", enabled |-> layer.enabled,
                                       lvl |-> tracing_level_to_log_level(e.level),
                                       min |-> 0, calls |-> << >>, e |-> e]]
              ELSE evt
    /\ lastOp' = Op("on_event:enabled", NoConfig, 0,
                    IF tracing_level_to_log_level(e.level) # kLevelNone /\ layer.enabled
                    THEN "passed" ELSE "rejected", layer.arc, << >>)

EvtEnabled(t, e) ==
    /\ EvtEnabledBody(t, e)
    /\ UNCHANGED <<arcVars, own, regVars, thr, nativeVars, relCalls, uaf, layer>>

\* on_event: the load of state.level in is_enabled_for and the comparison
EvtMin(t) ==
    /\ evt[t].pc = "min"
    /\ evt' = IF LevelGate(evt[t].lvl, level_from_u8(layer.level))
              THEN [evt EXCEPT ![t].pc = "is_enabled",
                               ![t].min = level_from_u8(layer.level)]
              ELSE [evt EXCEPT ![t] = IdleEvent]
    /\ lastOp' = Op("on_event:level", NoConfig, 0,
                    IF LevelGate(evt[t].lvl, level_from_u8(layer.level))
                    THEN "passed" ELSE "rejected", layer.arc, << >>)
    /\ UNCHANGED <<arcVars, own, regVars, thr, nativeVars, relCalls, uaf, layer>>

\* on_event: state.logger.is_enabled(level), then the same check at the head
\* of write_with_meta
EvtIsEnabled(t, en) ==
    /\ evt[t].pc \in {"is_enabled", "meta"}
    /\ en \in mars_xlog_is_enabled(aInst[layer.arc], LevelAsSys(evt[t].lvl))
    /\ NativeUse(aInst[layer.arc])
    /\ evt' = IF ShortCircuit(en) THEN [evt EXCEPT ![t] = IdleEvent]
              ELSE [evt EXCEPT ![t].pc = IF @ = "is_enabled" THEN "meta" ELSE "write",
                               ![t].calls = Append(@, CallIsEnabled(aInst[layer.arc],
                                                      LevelAsSys(evt[t].lvl), BoolInt(en)))]
    /\ lastOp' = Op(IF evt[t].pc = "is_enabled" THEN "on_event:is_enabled"
                    ELSE "on_event:write_with_meta:is_enabled", NoConfig, 0,
                    IF en THEN "true" ELSE "false", layer.arc,
                    <<CallIsEnabled(aInst[layer.arc], LevelAsSys(evt[t].lvl), BoolInt(en))>>)
    /\ UNCHANGED <<arcVars, own, regVars, thr, nativeVars, relCalls, layer>>

\* on_event: the native write of write_with_meta
EvtWrite(t) ==
    /\ evt[t].pc = "write"
    /\ NativeUse(aInst[layer.arc])
    /\ evt' = [evt EXCEPT ![t] = IdleEvent]
    /\ lastOp' = Op("on_event:write", NoConfig, 0, "Ok", layer.arc,
                    <<CallWrite(aInst[layer.arc],
                                WriteInfo(aName[layer.arc], evt[t].lvl,
                                          EventArgs(layer, evt[t].e)))>>)
    /\ UNCHANGED <<arcVars, own, regVars, thr, nativeVars, relCalls, layer>>

\* The layer and its handles are dropped: the LayerState drops its logger
LayerDrop ==
    /\ layer # NoLayer
    /\ layer.pending = NoPending
    /\ \A t \in Threads : evt[t] = IdleEvent
    /\ XlogDrop(layer.arc)
    /\ layer' = NoLayer
    /\ lastOp' = Op("drop", NoConfig, 0, "Ok", layer.arc, XlogDropCalls(layer.arc))
    /\ UNCHANGED <<own, regVars, thr, uaf, evt>>

\* -------------------------------------------------- variable-length queries
\* vec![0 as c_char; 4096]
InitialCapacity == 4096

Newline == 10
\* U+FFFD in UTF-8
Replacement == <<239, 191, 189>>

\* The answer of mars_xlog_get_filepath_from_timespan or
\* mars_xlog_make_logfile_name to one call: the required length it returns
\* and what it does to the buffer (wrote: it stored the C string s; otherwise
\* it left the buffer as it was).
QueryReply(required, wrote, str) == [required |-> required, wrote |-> wrote, s |-> str]

\* The C string at the start of the buffer after a call
BufferAfter(text, reply) == IF reply.wrote THEN reply.s ELSE text

\* A plausible slip: the buffer is doubled
ResizeDouble(cap, required) == 2 * cap

\* buf.resize(required, 0): the new buf.len()
Resize(cap, required) == required

\* CStr::to_string_lossy for byte strings of ASCII bytes and of bytes
\* 0xF5..0xFF, which no UTF-8 sequence contains: each such byte becomes
\* U+FFFD
RECURSIVE to_string_lossy(_)
to_string_lossy(bytes) ==
    IF bytes = << >> THEN << >>
    ELSE (IF Head(bytes) >= 245 THEN Replacement ELSE <<Head(bytes)>>)
         \o to_string_lossy(Tail(bytes))

\* s.split('\n')
RECURSIVE SplitNewline(_)
SplitNewline(str) ==
    IF \E i \in 1..Len(str) : str[i] = Newline
    THEN LET i == CHOOSE i \in 1..Len(str) :
                      str[i] = Newline /\ \A j \in 1..(i - 1) : str[j] # Newline
         IN <<SubSeq(str, 1, i - 1)>> \o SplitNewline(SubSeq(str, i + 1, Len(str)))
    ELSE <<str>>

\* The native calls read_joined makes when the native function answers r1,
\* then r2
read_joined_calls(fn, prefix, r1, r2) ==
    LET first == [Call(fn, 0, prefix, NoSysConfig, 0, 0, r1.required) EXCEPT
                     !.cap = InitialCapacity, !.buf = BufferAfter(EmptyStr, r1)]
        second == [Call(fn, 0, prefix, NoSysConfig, 0, 0, r2.required) EXCEPT
                      !.cap = Resize(InitialCapacity, r1.required),
                      !.buf = BufferAfter(first.buf, r2)]
    IN IF r1.required > InitialCapacity THEN <<first, second>> ELSE <<first>>

\* read_joined: the Vec<String> returned
read_joined(fn, prefix, r1, r2) ==
    LET calls == read_joined_calls(fn, prefix, r1, r2)
        str == to_string_lossy(calls[Len(calls)].buf)
    IN IF str = << >> THEN << >> ELSE SplitNewline(str)

\* Xlog::filepaths_from_timespan(timespan, prefix)
FilepathsFromTimespan(timespan, prefix, r1, r2) ==
    /\ lastOp' = [Op("Xlog::filepaths_from_timespan", NoConfig, timespan, "Ok", 0,
                     read_joined_calls("mars_xlog_get_filepath_from_timespan",
                                       CStringHolderNew(prefix), r1, r2))
                     EXCEPT !.out = read_joined("mars_xlog_get_filepath_from_timespan",
                                                CStringHolderNew(prefix), r1, r2)]
    /\ UNCHANGED <<arcVars, own, regVars, thr, nativeVars, relCalls, uaf, layerVars>>

\* Xlog::make_logfile_name(timespan, prefix)
MakeLogfileName(timespan, prefix, r1, r2) ==
    /\ lastOp' = [Op("Xlog::make_logfile_name", NoConfig, timespan, "Ok", 0,
                     read_joined_calls("mars_xlog_make_logfile_name",
                                       CStringHolderNew(prefix), r1, r2))
                     EXCEPT !.out = read_joined("mars_xlog_make_logfile_name",
                                                CStringHolderNew(prefix), r1, r2)]
    /\ UNCHANGED <<arcVars, own, regVars, thr, nativeVars, relCalls, uaf, layerVars>>

\* --------------------------------------------- object-handle bridge (UniFFI)
\* The Display text of XlogError
StrInvalidConfig ==
    <<108, 111, 103, 95, 100, 105, 114, 32, 97, 110, 100, 32, 110, 97, 109,
      101, 95, 112, 114, 101, 102, 105, 120, 32, 109, 117, 115, 116, 32,
      98, 101, 32, 110, 111, 110, 45, 101, 109, 112, 116, 121>>
StrInitFailed ==
    <<120, 108, 111, 103, 32, 105, 110, 105, 116, 105, 97, 108, 105, 122,
      97, 116, 105, 111, 110, 32, 102, 97, 105, 108, 101, 100>>
\* "init tracing subscriber failed: " followed by the Display text of
\* tracing's SetGlobalDefaultError
StrTracingFailed ==
    <<105, 110, 105, 116, 32, 116, 114, 97, 99, 105, 110, 103, 32, 115,
      117, 98, 115, 99, 114, 105, 98, 101, 114, 32, 102, 97, 105, 108, 101,
      100, 58, 32, 97, 32, 103, 108, 111, 98, 97, 108, 32, 100, 101, 102,
      97, 117, 108, 116, 32, 116, 114, 97, 99, 101, 32, 100, 105, 115, 112,
      97, 116, 99, 104, 101, 114, 32, 104, 97, 115, 32, 97, 108, 114, 101,
      97, 100, 121, 32, 98, 101, 101, 110, 32, 115, 101, 116>>
\* "Initialized logger successfully!", "mars_xlog_uniffi", "src/lib.rs" and
\* the event name "event src/lib.rs:113"
StrInitialized ==
    <<73, 110, 105, 116, 105, 97, 108, 105, 122, 101, 100, 32, 108, 111,
      103, 103, 101, 114, 32, 115, 117, 99, 99, 101, 115, 115, 102, 117,
      108, 108, 121, 33>>
StrUniffiTarget ==
    <<109, 97, 114, 115, 95, 120, 108, 111, 103, 95, 117, 110, 105, 102,
      102, 105>>
StrUniffiFile ==
    <<115, 114, 99, 47, 108, 105, 98, 46, 114, 115>>
StrUniffiEvent ==
    <<101, 118, 101, 110, 116, 32, 115, 114, 99, 47, 108, 105, 98, 46, 114,
      115, 58, 49, 49, 51>>
UniffiInfoLine == 113

\* A plausible slip: the error carries no text
XlogErrorDisplayEmpty(res) == EmptyStr

\* e.to_string() of an XlogError
XlogErrorDisplay(res) ==
    IF res = "InvalidConfig" THEN StrInvalidConfig ELSE StrInitFailed

\* A plausible slip: an empty string is set like any other
NonEmptyOptAll(str) == Some(str)

\* `if !s.is_empty() { config = config.field(s) }`
NonEmptyOpt(str) == IF str # EmptyStr THEN Some(str) ELSE None

\* to_core_config: pub_key and cache_dir are Strings, set when not empty
to_core_config(f) ==
    [XlogConfigNew(f.log_dir, f.name_prefix) EXCEPT
        !.pub_key = NonEmptyOpt(f.pub_key.v),
        !.cache_dir = NonEmptyOpt(f.cache_dir.v)]

CallConsole(inst, open) ==
    Call("mars_xlog_set_console_log_open", inst, NullPtr, NoSysConfig, 0, open, 0)

\* info!("Initialized logger successfully!")
UniffiInfoEvent ==
    Event("INFO", StrUniffiEvent, StrUniffiTarget, Some(StrUniffiFile),
          Some(StrUniffiTarget), SomeLine(UniffiInfoLine),
          <<Field(StrMessage, StrInitialized)>>, << >>)

\* Logger::new up to the `?` on Xlog::init: the error is returned as
\* XlogError::Message { details: e.to_string() }
UniffiNew(t, f, level, ok) ==
    LET config == to_core_config(f) IN
    /\ thr[t].pc = "idle"
    /\ nextArc <= MaxArc
    /\ XlogNew(config, level, ok)
    /\ thr' = IF XlogNewRes(config, ok) = "Ok"
              THEN [thr EXCEPT ![t] = [pc |-> "uniffi:console",
                                       arc |-> XlogNewArc(config, ok),
                                       id |-> 0, lvl |-> level]]
              ELSE thr
    /\ lastOp' = [Op("Logger::new", config, 0,
                     IF XlogNewRes(config, ok) = "Ok" THEN "Ok" ELSE "Err(Message)",
                     XlogNewArc(config, ok), XlogNewCalls(config, level, ok))
                     EXCEPT !.api = "Logger::new", !.ffi = f,
                            !.err = IF XlogNewRes(config, ok) = "Ok" THEN EmptyStr
                                    ELSE XlogErrorDisplay(XlogNewRes(config, ok))]
    /\ UNCHANGED <<own, regVars, relCalls, uaf, layerVars>>

\* Logger::new: logger.set_console_log_open(true)
UniffiConsole(t) ==
    /\ thr[t].pc = "uniffi:console"
    /\ NativeUse(aInst[thr[t].arc])
    /\ thr' = [thr EXCEPT ![t].pc = "uniffi:tracing"]
    /\ lastOp' = [Op("Logger::new:console", NoConfig, 0, "Ok", thr[t].arc,
                     <<CallConsole(aInst[thr[t].arc], BoolInt(TRUE))>>)
                     EXCEPT !.api = "Logger::new"]
    /\ UNCHANGED <<arcVars, own, regVars, nativeVars, relCalls, layerVars>>

\* A plausible slip: the subscriber that was turned down is kept, and with
\* it the clone its layer holds
TracingRejectedLeak(a) == XlogClone(a)

\* init_tracing when set_global_default turns the subscriber down: the
\* subscriber and the handle of the layer are dropped, and with them the
\* clone of the logger that was made for the layer
TracingRejected(a) == UNCHANGED arcVars

\* Logger::new: init_tracing(logger.clone(), level).  with_config sets the
\* level of the instance; set_global_default installs the layer unless a
\* global subscriber is installed, and otherwise drops it with the clone.
UniffiInitTracing(t) ==
    /\ thr[t].pc = "uniffi:tracing"
    /\ mars_xlog_set_level(aInst[thr[t].arc], LevelAsSys(thr[t].lvl))
    /\ NativeUse(aInst[thr[t].arc])
    /\ IF layer = NoLayer
       THEN /\ XlogClone(thr[t].arc)
            /\ layer' = [arc |-> thr[t].arc,
                         enabled |-> XlogLayerConfigNew(thr[t].lvl).enabled,
                         level |-> level_to_u8(thr[t].lvl), pending |-> NoPending,
                         tag |-> XlogLayerConfigNew(thr[t].lvl).tag,
                         include_spans |-> XlogLayerConfigNew(thr[t].lvl).include_spans]
       ELSE TracingRejected(thr[t].arc) /\ UNCHANGED layer
    /\ thr' = [thr EXCEPT ![t].pc = IF layer = NoLayer THEN "uniffi:info"
                                    ELSE "uniffi:fail"]
    /\ lastOp' = [Op("Logger::new:init_tracing", NoConfig, 0,
                     IF layer = NoLayer THEN "Ok" ELSE "Err(Message)", thr[t].arc,
                     <<CallSetLevel(aInst[thr[t].arc], LevelAsSys(thr[t].lvl))>>)
                     EXCEPT !.api = "Logger::new"]
    /\ UNCHANGED <<own, regVars, relCalls, evt>>

\* Logger::new: the `?` on init_tracing returns the error and drops logger
UniffiFail(t) ==
    /\ thr[t].pc = "uniffi:fail"
    /\ XlogDrop(thr[t].arc)
    /\ thr' = [thr EXCEPT ![t] = IdleThread]
    /\ lastOp' = [Op("Logger::new:drop", NoConfig, 0, "Err(Message)", thr[t].arc,
                     XlogDropCalls(thr[t].arc))
                     EXCEPT !.api = "Logger::new", !.err = StrTracingFailed]
    /\ UNCHANGED <<own, regVars, uaf, layerVars>>

\* Logger::new: info!(..) reaches on_event of the installed layer.  (The
\* Layer::enabled check before it makes the same two loads; no handle of the
\* layer is kept, so nothing changes them in between.)
UniffiInfo(t) ==
    /\ thr[t].pc = "uniffi:info"
    /\ EvtEnabledBody(t, UniffiInfoEvent)
    /\ thr' = [thr EXCEPT ![t].pc = "uniffi:ret"]
    /\ UNCHANGED <<arcVars, own, regVars, nativeVars, relCalls, uaf, layer>>

\* Logger::new: Ok(Self { inner: logger }); the foreign caller holds the
\* Logger object
UniffiReturn(t, o) ==
    /\ thr[t].pc = "uniffi:ret"
    /\ evt[t] = IdleEvent
    /\ own[o] = IdleOwner
    /\ own' = [own EXCEPT ![o].arc = thr[t].arc]
    /\ thr' = [thr EXCEPT ![t] = IdleThread]
    /\ lastOp' = [Op("Logger::new:return", NoConfig, 0, "Ok", thr[t].arc, << >>)
                     EXCEPT !.api = "Logger::new"]
    /\ UNCHANGED <<arcVars, regVars, nativeVars, relCalls, uaf, layerVars>>

\* ------------------------------------------------ single-call bridge (N-API)
\* A plausible slip: the error is swallowed
UnwrapQuiet(res) == "Ok"

\* Result::unwrap
Unwrap(res) == IF res = "Ok" THEN "Ok" ELSE "panic"

\* The configuration XlogConfig::build makes: cache_dir and pub_key are set
\* to the Strings given, whatever they are
NapiConfig(f, async) ==
    [XlogConfigNew(f.log_dir, f.name_prefix) EXCEPT
        !.cache_dir = Some(f.cache_dir.v),
        !.pub_key = Some(f.pub_key.v),
        !.mode = IF async THEN kAppenderAsync ELSE kAppenderSync,
        !.compress_mode = kZlib]

\* XlogConfig::build: Xlog::init(..).unwrap(), set_console_log_open, Logger
NapiBuild(o, f, async, console, level, ok) ==
    LET config == NapiConfig(f, async)
        res == XlogNewRes(config, ok) IN
    /\ own[o] = IdleOwner
    /\ nextArc <= MaxArc
    /\ XlogNew(config, level, ok)
    /\ own' = [own EXCEPT ![o].arc = XlogNewArc(config, ok)]
    /\ lastOp' = [Op("XlogConfig::build", config, 0, Unwrap(res),
                     XlogNewArc(config, ok),
                     XlogNewCalls(config, level, ok)
                     \o (IF res = "Ok"
                         THEN <<CallConsole(mars_xlog_new_instance_ret(to_sys(config), ok),
                                            BoolInt(console))>>
                         ELSE << >>))
                     EXCEPT !.api = "XlogConfig::build", !.ffi = f]
    /\ UNCHANGED <<regVars, thr, relCalls, uaf, layerVars>>

\* ----------------------------------------------------------- specifications
\* No live native instance is registered under the configuration's name
FreshName(config) == NativeLookup(to_sys(config).nameprefix.s) = 0

OwnerNewAny == \E o \in Owners, c \in LifeConfigs, l \in CreateLevelInputs, ok \in BOOLEAN :
                  FreshName(c) /\ OwnerNew(o, c, l, ok)
OwnerGetAny == \E o \in Owners, n \in NameInputs : OwnerGet(o, n)
OwnerCloneAny == \E o \in Owners, p \in Owners : OwnerClone(o, p)
OwnerDropAny == \E o \in Owners : OwnerDrop(o)
\* The write_with_meta arguments of the lifecycle specifications
LifeWrite == WriteArgs(None, EmptyStr, EmptyStr, U32Of(0), StrA)

OwnerWriteCheckAny == \E o \in Owners, l \in WriteLevelInputs, en \in BOOLEAN :
                         OwnerWriteCheck(o, l, LifeWrite, en)
OwnerWriteAny == \E o \in Owners : OwnerWrite(o)
OwnerFlushAny == \E o \in Owners, sync \in BOOLEAN : OwnerFlush(o, sync)
JniCreateLoggerAny == \E t \in Threads, j \in JniInputs, l \in CreateLevelInputs,
                         ok \in BOOLEAN :
                         /\ FreshName(JniConfig(j.log_dir, j.name_prefix, j.pub_key, j.cache_dir))
                         /\ JniCreateLogger(t, j, l, ok)
JniGetLoggerAny == \E t \in Threads, n \in NameInputs : JniGetLogger(t, n)
JniInsertAny == \E t \in Threads : JniInsert(t)
JniReleaseLoggerAny == \E t \in Threads, h \in HandleInputs : JniReleaseLogger(t, h)
JniGetHandleAny == \E t \in Threads, h \in HandleInputs, l \in WriteLevelInputs,
                      w \in {"write:check", "flush"} :
                      JniGetHandle(t, h, w, IF w = "flush" THEN 0 ELSE l)
JniWriteCheckAny == \E t \in Threads, en \in BOOLEAN : JniWriteCheck(t, en)
JniWriteAny == \E t \in Threads : JniWrite(t)
JniFlushAny == \E t \in Threads, sync \in BOOLEAN : JniFlush(t, sync)
JniDropLocalAny == \E t \in Threads : JniDropLocal(t)

\* The uses of a handle in the lifecycle with lookup by name: writes at the
\* level the instance passes, and synchronous flushes
LifeWriteCheckAny == \E o \in Owners, en \in BOOLEAN :
                        OwnerWriteCheck(o, kLevelInfo, LifeWrite, en)
LifeFlushAny == \E o \in Owners : OwnerFlush(o, TRUE)
LifeGetHandleAny == \E t \in Threads, h \in HandleInputs, w \in {"write:check", "flush"} :
                       JniGetHandle(t, h, w, IF w = "flush" THEN 0 ELSE kLevelInfo)
LifeJniFlushAny == \E t \in Threads : JniFlush(t, TRUE)

\* The handle lifecycle: Rust owners and bridge threads, creation and lookup
\* by name
Next ==
    \/ OwnerNewAny
    \/ OwnerGetAny
    \/ OwnerCloneAny
    \/ OwnerDropAny
    \/ LifeWriteCheckAny
    \/ OwnerWriteAny
    \/ LifeFlushAny
    \/ JniCreateLoggerAny
    \/ JniGetLoggerAny
    \/ JniInsertAny
    \/ JniReleaseLoggerAny
    \/ LifeGetHandleAny
    \/ JniWriteCheckAny
    \/ JniWriteAny
    \/ LifeJniFlushAny
    \/ JniDropLocalAny

Spec == Init /\ [][Next]_vars

\* One handle family per native instance: every handle to an instance is the
\* one Xlog::new returned or a clone of it (no lookup by name)
NextFamily ==
    \/ OwnerNewAny
    \/ OwnerCloneAny
    \/ OwnerDropAny
    \/ OwnerWriteCheckAny
    \/ OwnerWriteAny
    \/ OwnerFlushAny
    \/ JniCreateLoggerAny
    \/ JniInsertAny
    \/ JniReleaseLoggerAny
    \/ JniGetHandleAny
    \/ JniWriteCheckAny
    \/ JniWriteAny
    \/ JniFlushAny
    \/ JniDropLocalAny

SpecFamily == Init /\ [][NextFamily]_vars

\* The numeric-handle bridge alone: every handle is made, used and released
\* through bridge calls
NextJni ==
    \/ JniCreateLoggerAny
    \/ JniGetLoggerAny
    \/ JniInsertAny
    \/ JniReleaseLoggerAny
    \/ JniGetHandleAny
    \/ JniWriteCheckAny
    \/ JniWriteAny
    \/ JniFlushAny
    \/ JniDropLocalAny

SpecJni == Init /\ [][NextJni]_vars

\* Marshalling: the entry points that take a configuration, over every
\* configuration of ConfigInputs
ConfigNewAny == \E o \in Owners, c \in ConfigInputs, l \in CreateLevelInputs, ok \in BOOLEAN :
                   FreshName(c) /\ OwnerNew(o, c, l, ok)
AppenderOpenAny == \E c \in ConfigInputs, l \in CreateLevelInputs : AppenderOpen(c, l)
OneshotFlushAny == \E c \in ConfigInputs, ok \in BOOLEAN, a \in ActionInputs :
                      OneshotFlush(c, ok, a)

NextConfig ==
    \/ ConfigNewAny
    \/ OwnerDropAny
    \/ AppenderOpenAny
    \/ OneshotFlushAny

SpecConfig == Init /\ [][NextConfig]_vars

\* Marshalling of strings over an alphabet that includes the terminator
\* byte: configurations and write arguments with embedded terminators
MarshalConfigs ==
    {[XlogConfigNew(d, n) EXCEPT !.pub_key = k] :
        d \in {StrDir, StrNul}, n \in {StrA, StrNul, StrANul},
        k \in {None, Some(StrNulK)}}

MarshalWrites ==
    {WriteArgs(t, StrNulK, EmptyStr, U32Of(0), StrANul) : t \in {None, Some(StrANul)}}

MarshalNewAny == \E o \in Owners, c \in MarshalConfigs, l \in CreateLevelInputs, ok \in BOOLEAN :
                    FreshName(c) /\ OwnerNew(o, c, l, ok)
MarshalOpenAny == \E c \in MarshalConfigs, l \in CreateLevelInputs : AppenderOpen(c, l)
MarshalOneshotAny == \E c \in MarshalConfigs, ok \in BOOLEAN : OneshotFlush(c, ok, 0)
MarshalWriteCheckAny == \E o \in Owners, w \in MarshalWrites, en \in BOOLEAN :
                           OwnerWriteCheck(o, kLevelInfo, w, en)

NextMarshal ==
    \/ MarshalNewAny
    \/ OwnerDropAny
    \/ MarshalOpenAny
    \/ MarshalOneshotAny
    \/ MarshalWriteCheckAny
    \/ OwnerWriteAny

SpecMarshal == Init /\ [][NextMarshal]_vars

\* The write paths log, write and write_with_meta, with the level of the
\* instance changed concurrently through another clone
WriteTags == {None, Some(StrTag)}
DirectWrites == {WriteArgs(t, StrDir, StrKey, U32Of(1), StrHello) : t \in WriteTags}

OwnerLogAny == \E o \in Owners, p \in {"log", "write"}, l \in WriteLevelInputs,
                  t \in WriteTags, en \in BOOLEAN : OwnerLog(o, p, l, t, StrHello, en)
WriteCheckAny == \E o \in Owners, l \in WriteLevelInputs, en \in BOOLEAN :
                    \E w \in DirectWrites \cup {own[o].w} : OwnerWriteCheck(o, l, w, en)
OwnerSetLevelAny == \E o \in Owners, l \in {kLevelDebug, kLevelWarn} : OwnerSetLevel(o, l)

NextWrite ==
    \/ OwnerNewAny
    \/ OwnerCloneAny
    \/ OwnerDropAny
    \/ OwnerSetLevelAny
    \/ OwnerLogAny
    \/ WriteCheckAny
    \/ OwnerWriteAny

SpecWrite == Init /\ [][NextWrite]_vars

\* One instance "app" from creation to release, with the log of steps kept:
\* create at a level that enables Info, clone, write(Info, "tag", "hello"),
\* flush(true), drop, in any order the owners choose and with no change of
\* level
InitScenario == InitState /\ lastOp = InitOp(TRUE)

TraceOpen == Len(lastOp.trace) < MaxTrace

ScenarioNewAny == \E o \in Owners, l \in {kLevelDebug, kLevelInfo}, ok \in BOOLEAN :
                     /\ TraceOpen
                     /\ nextInst = 1
                     /\ OwnerNew(o, XlogConfigNew(StrDir, StrApp), l, ok)
ScenarioCloneAny == TraceOpen /\ OwnerCloneAny
ScenarioDropAny == TraceOpen /\ OwnerDropAny
ScenarioLogAny == \E o \in Owners, en \in BOOLEAN :
                     /\ TraceOpen
                     /\ OwnerLog(o, "write", kLevelInfo, Some(StrTag), StrHello, en)
ScenarioCheckAny == \E o \in Owners, en \in BOOLEAN :
                       /\ TraceOpen
                       /\ own[o].pc = "meta"
                       /\ OwnerWriteCheck(o, own[o].lvl, own[o].w, en)
ScenarioWriteAny == TraceOpen /\ OwnerWriteAny
ScenarioFlushAny == \E o \in Owners : TraceOpen /\ OwnerFlush(o, TRUE)

NextScenario ==
    \/ ScenarioNewAny
    \/ ScenarioCloneAny
    \/ ScenarioDropAny
    \/ ScenarioLogAny
    \/ ScenarioCheckAny
    \/ ScenarioWriteAny
    \/ ScenarioFlushAny

SpecScenario == InitScenario /\ [][NextScenario]_vars

\* Variable-length queries over the answers of the native function
RequiredInputs == {1, 4096, 4097, 10000}
\* "", "a", "a\na", "a\n", "\na", "a\n\na" and the byte 0xFF
TextInputs == {EmptyStr, StrA, <<97, 10, 97>>, <<97, 10>>, <<10, 97>>,
               <<97, 10, 10, 97>>, <<255>>}
\* The required length counts the string stored and its terminator
QueryReplies ==
    {QueryReply(n, FALSE, EmptyStr) : n \in RequiredInputs}
    \cup {r \in {QueryReply(n, TRUE, t) : n \in RequiredInputs, t \in TextInputs} :
             Len(r.s) + 1 <= r.required}
\* The second answer, asked for only after a first answer above the capacity
SecondReplies(r1) == IF r1.required > InitialCapacity THEN QueryReplies ELSE {r1}

FilepathsFromTimespanAny == \E p \in {StrA, StrANul}, r1 \in QueryReplies :
                               \E r2 \in SecondReplies(r1) :
                                   FilepathsFromTimespan(0, p, r1, r2)
MakeLogfileNameAny == \E p \in {StrA, StrANul}, r1 \in QueryReplies :
                         \E r2 \in SecondReplies(r1) :
                             MakeLogfileName(1, p, r1, r2)

NextQuery ==
    \/ FilepathsFromTimespanAny
    \/ MakeLogfileNameAny

SpecQuery == Init /\ [][NextQuery]_vars

\* Every bridge function that takes a handle, on ids of every kind: 0, never
\* issued, in the table, removed
BridgeOps == {"write:check", "write_with_meta:check", "flush", "is_enabled", "level"}
             \cup MutatorOps

BridgeGetHandleAny == \E t \in Threads, h \in HandleInputs, w \in BridgeOps :
                         JniGetHandle(t, h, w,
                                      IF w \in {"write:check", "write_with_meta:check",
                                                "is_enabled", "set_level"}
                                      THEN kLevelInfo ELSE 0)
JniMutatorAny == \E t \in Threads : JniMutator(t)
JniIsEnabledAny == \E t \in Threads, en \in BOOLEAN : JniIsEnabled(t, en)
JniGetLevelAny == \E t \in Threads, lv \in kLevelVerbose..kLevelNone : JniGetLevel(t, lv)

NextBridge ==
    \/ JniCreateLoggerAny
    \/ JniInsertAny
    \/ JniReleaseLoggerAny
    \/ BridgeGetHandleAny
    \/ JniWriteCheckAny
    \/ JniWriteAny
    \/ JniFlushAny
    \/ JniMutatorAny
    \/ JniIsEnabledAny
    \/ JniGetLevelAny
    \/ JniDropLocalAny

SpecBridge == Init /\ [][NextBridge]_vars

\* The tracing layer over one logger: events on several threads, the handle
\* switching the flag and the level meanwhile
EventLevels == {"DEBUG", "INFO", "ERROR"}
LayerLevels == {kLevelDebug, kLevelWarn}

LayerWithConfigAny == \E o \in Owners, en \in BOOLEAN, l \in LayerLevels :
                         LayerWithConfig(o, [XlogLayerConfigNew(l) EXCEPT !.enabled = en])
LayerNewAny == \E o \in Owners, lv \in kLevelVerbose..kLevelNone : LayerNew(o, lv)
HandleSetEnabledAny == \E en \in BOOLEAN : HandleSetEnabled(en)
\* The handle is held by one thread: its set_level calls come one at a time
HandleSetLevelAny == \E l \in LayerLevels : HandleSetLevel(1, l)
HandleStoreLevelAny == \E t \in Threads : HandleStoreLevel(t)
\* An event with an explicit message, no other field and full metadata
LayerEvent(level) ==
    Event(level, StrA, StrTag, Some(StrDir), Some(StrKey), SomeLine(1),
          <<Field(StrMessage, StrHello)>>, << >>)

EvtEnabledAny == \E t \in Threads, l \in EventLevels : EvtEnabled(t, LayerEvent(l))
EvtMinAny == \E t \in Threads : EvtMin(t)
EvtIsEnabledAny == \E t \in Threads, en \in BOOLEAN : EvtIsEnabled(t, en)
EvtWriteAny == \E t \in Threads : EvtWrite(t)

NextLayer ==
    \/ OwnerNewAny
    \/ LayerWithConfigAny
    \/ LayerNewAny
    \/ HandleSetEnabledAny
    \/ HandleSetLevelAny
    \/ HandleStoreLevelAny
    \/ EvtEnabledAny
    \/ EvtMinAny
    \/ EvtIsEnabledAny
    \/ EvtWriteAny
    \/ LayerDrop

SpecLayer == Init /\ [][NextLayer]_vars

\* The message and provenance on_event forwards: events one at a time over
\* recorded fields, metadata and scopes of every shape, under layers with and
\* without a tag and span names
EventRecs ==
    {<< >>,
     <<Field(StrMessage, StrHello)>>,
     <<Field(StrKey, StrA)>>,
     <<Field(StrMessage, StrHello), Field(StrKey, StrA)>>,
     <<Field(StrKey, StrA), Field(StrMessage, StrHello), Field(StrCache, StrDir)>>}

EventInputs ==
    {Event("INFO", StrApp, StrTag, Some(StrDir), Some(StrKey), SomeLine(1), r, sc) :
        r \in EventRecs, sc \in {<< >>, <<StrA, StrDir>>}}
    \cup {Event("INFO", StrApp, StrTag, None, None, NoLine, r, << >>) : r \in EventRecs}

EventLayerConfigs ==
    {[XlogLayerConfigNew(kLevelDebug) EXCEPT !.tag = tg, !.include_spans = sp] :
        tg \in {None, Some(StrCache)}, sp \in BOOLEAN}

EventLayerAny == \E o \in Owners, c \in EventLayerConfigs : LayerWithConfig(o, c)
EventStartAny == \E t \in Threads, e \in EventInputs :
                    /\ \A u \in Threads : evt[u] = IdleEvent
                    /\ EvtEnabled(t, e)

NextEvent ==
    \/ OwnerNewAny
    \/ EventLayerAny
    \/ EventStartAny
    \/ EvtMinAny
    \/ EvtIsEnabledAny
    \/ EvtWriteAny
    \/ LayerDrop

SpecEvent == Init /\ [][NextEvent]_vars

\* The gate of the layer over every minimum level and every event level
GateLevels == kLevelVerbose..kLevelNone
TracingLevels == {"TRACE", "DEBUG", "INFO", "WARN", "ERROR"}

\* One logger, moved into the layer
GateNewAny == nextInst = 1 /\ OwnerNewAny
GateLayerAny == \E o \in Owners, l \in GateLevels :
                   LayerWithConfig(o, XlogLayerConfigNew(l))
GateSetLevelAny == \E l \in GateLevels : HandleSetLevel(1, l)
GateEventAny == \E t \in Threads, l \in TracingLevels :
                   /\ \A u \in Threads : evt[u] = IdleEvent
                   /\ EvtEnabled(t, LayerEvent(l))

NextGate ==
    \/ GateNewAny
    \/ GateLayerAny
    \/ GateSetLevelAny
    \/ HandleStoreLevelAny
    \/ GateEventAny
    \/ EvtMinAny
    \/ EvtIsEnabledAny
    \/ EvtWriteAny
    \/ LayerDrop

SpecGate == Init /\ [][NextGate]_vars

\* One instance shared by clones, with the log of steps kept: the level is
\* set through the Xlog value of owner 1 and read through that of owner 2
SharedOpen == Len(lastOp.trace) < MaxShared

SharedNewAny == SharedOpen /\ ScenarioNewAny
SharedCloneAny == SharedOpen /\ OwnerCloneAny
SharedDropAny == SharedOpen /\ OwnerDropAny
SharedSetLevelAny == \E l \in {kLevelDebug, kLevelWarn, kLevelNone} :
                        SharedOpen /\ OwnerSetLevel(1, l)
SharedLevelAny == \E lv \in kLevelVerbose..kLevelNone : SharedOpen /\ OwnerLevel(2, lv)
SharedInstanceAny == \E o \in Owners : SharedOpen /\ OwnerInstance(o)

NextShared ==
    \/ SharedNewAny
    \/ SharedCloneAny
    \/ SharedDropAny
    \/ SharedSetLevelAny
    \/ SharedLevelAny
    \/ SharedInstanceAny

SpecShared == InitScenario /\ [][NextShared]_vars

\* The constructors of the three bridges over the strings a foreign caller
\* can give: empty and non-empty required fields, empty and non-empty
\* pub_key and cache_dir, and (for Java) null
ForeignInputs ==
    {Foreign(StrDir, n, Some(kc[1]), Some(kc[2])) :
        n \in {StrA, StrApp},
        kc \in {<<EmptyStr, EmptyStr>>, <<StrKey, EmptyStr>>, <<EmptyStr, StrCache>>}}
    \cup {Foreign(EmptyStr, StrA, Some(EmptyStr), Some(EmptyStr)),
           Foreign(StrDir, EmptyStr, Some(EmptyStr), Some(EmptyStr))}

JavaInputs == ForeignInputs \cup {Foreign(StrDir, StrA, None, None)}

ForeignJniCreateAny == \E t \in Threads, j \in JavaInputs, ok \in BOOLEAN :
                          /\ FreshName(JniConfig(j.log_dir, j.name_prefix,
                                                 j.pub_key, j.cache_dir))
                          /\ JniCreateLogger(t, j, kLevelInfo, ok)
UniffiNewAny == \E t \in Threads, f \in ForeignInputs, ok \in BOOLEAN :
                   /\ FreshName(to_core_config(f))
                   /\ UniffiNew(t, f, kLevelInfo, ok)
UniffiConsoleAny == \E t \in Threads : UniffiConsole(t)
UniffiInitTracingAny == \E t \in Threads : UniffiInitTracing(t)
UniffiFailAny == \E t \in Threads : UniffiFail(t)
UniffiInfoAny == \E t \in Threads : UniffiInfo(t)
UniffiReturnAny == \E t \in Threads, o \in Owners : UniffiReturn(t, o)
NapiBuildAny == \E o \in Owners, f \in ForeignInputs, ok \in BOOLEAN :
                   /\ FreshName(NapiConfig(f, TRUE))
                   /\ NapiBuild(o, f, TRUE, TRUE, kLevelInfo, ok)

NextForeign ==
    \/ ForeignJniCreateAny
    \/ JniInsertAny
    \/ JniReleaseLoggerAny
    \/ UniffiNewAny
    \/ UniffiConsoleAny
    \/ UniffiInitTracingAny
    \/ UniffiFailAny
    \/ UniffiInfoAny
    \/ EvtMinAny
    \/ EvtIsEnabledAny
    \/ EvtWriteAny
    \/ UniffiReturnAny
    \/ NapiBuildAny
    \/ OwnerDropAny

SpecForeign == Init /\ [][NextForeign]_vars

\* Lookup by name: names with and without an instance, and a name with an
\* embedded terminator
LookupNames == {StrA, StrApp, StrANul}

LookupGetAny == \E o \in Owners, n \in LookupNames : OwnerGet(o, n)

NextLookup ==
    \/ OwnerNewAny
    \/ LookupGetAny
    \/ OwnerCloneAny
    \/ OwnerFlushAny
    \/ OwnerDropAny

SpecLookup == Init /\ [][NextLookup]_vars

\* write_with_meta called directly: tag given or absent, strings with
\* embedded terminators, and line numbers on both sides of 2^31
MetaLines == {U32Of(7), U32(32768, 0), U32(65535, 65535)}

MetaWrites ==
    {WriteArgs(t, StrNulK, StrKey, ln, StrANul) :
        t \in {None, Some(StrTag), Some(StrNulK)}, ln \in MetaLines}

MetaCheckAny == \E o \in Owners, w \in MetaWrites, en \in BOOLEAN :
                   OwnerWriteCheck(o, kLevelInfo, w, en)

NextMeta ==
    \/ OwnerNewAny
    \/ OwnerCloneAny
    \/ OwnerDropAny
    \/ MetaCheckAny
    \/ OwnerWriteAny

SpecMeta == Init /\ [][NextMeta]_vars

\* The two bridge calls that register a handle, over valid and invalid
\* configurations, native failures, and names with and without an instance
RegistryCreateAny == \E t \in Threads, j \in JavaInputs, ok \in BOOLEAN :
                        /\ FreshName(JniConfig(j.log_dir, j.name_prefix,
                                               j.pub_key, j.cache_dir))
                        /\ JniCreateLogger(t, j, kLevelInfo, ok)
RegistryGetAny == \E t \in Threads, n \in LookupNames : JniGetLogger(t, n)

NextRegistry ==
    \/ RegistryCreateAny
    \/ RegistryGetAny
    \/ JniInsertAny
    \/ JniReleaseLoggerAny

SpecRegistry == Init /\ [][NextRegistry]_vars

\* The one-shot flush through the core and through the numeric-handle
\* bridge, over action codes inside and outside 1..7
OneshotCodes == -1..9

OneshotCoreAny == \E c \in ConfigInputs, ok \in BOOLEAN, a \in OneshotCodes :
                     OneshotFlush(c, ok, a)
OneshotJniAny == \E j \in JavaInputs, ok \in BOOLEAN, a \in OneshotCodes :
                    JniOneshotFlush(j, ok, a)

NextOneshot ==
    \/ OneshotCoreAny
    \/ OneshotJniAny

SpecOneshot == Init /\ [][NextOneshot]_vars

\* The level set through clones of the handle on several threads at once,
\* and through nothing else
ClonesLayerAny == \E o \in Owners, l \in LayerLevels :
                     LayerWithConfig(o, XlogLayerConfigNew(l))
ClonesSetLevelAny == \E t \in Threads, l \in GateLevels : HandleSetLevel(t, l)

NextClones ==
    \/ GateNewAny
    \/ ClonesLayerAny
    \/ LayerNewAny
    \/ ClonesSetLevelAny
    \/ HandleStoreLevelAny
    \/ LayerDrop

SpecClones == Init /\ [][NextClones]_vars

\* ------------------------------------------------------------------ claims
RECURSIVE SumOver(_, _)
SumOver(S, f) ==
    IF S = {} THEN 0
    ELSE LET x == CHOOSE y \in S : TRUE IN f[x] + SumOver(S \ {x}, f)

\* The Xlog values that refer to Arc<Inner> a: owners' variables, threads'
\* locals and registry entries
HandlesOn(a) ==
    Cardinality({o \in Owners : own[o].arc = a})
    + Cardinality({t \in Threads : thr[t].arc = a})
    + Cardinality({i \in ArcIds : LOGGERS[i] = a})

\* The Xlog values that refer to native instance i
HandlesTo(i) ==
    SumOver({a \in ArcIds : a < nextArc /\ aInst[a] = i},
            [a \in ArcIds |-> HandlesOn(a)])

Created(i) == nState[i] # "none"

\* C1: for the handle Xlog::new returned and its clones, the native release
\* has not been invoked and the instance is live while a clone is alive, and
\* the release has been invoked exactly once as soon as none is.
C1_ReleaseOnLastDrop ==
    \A i \in InstIds : Created(i) =>
        /\ HandlesTo(i) > 0 => (relCalls[i] = 0 /\ nState[i] = "live")
        /\ HandlesTo(i) = 0 => (relCalls[i] = 1 /\ nState[i] = "released")

\* C1 witness: one family has been dropped and released once while another
\* handle with at least one clone is alive and unreleased.
C1_Witness ==
    \E i \in InstIds, j \in InstIds :
        /\ Created(i) /\ HandlesTo(i) = 0 /\ relCalls[i] = 1
        /\ Created(j) /\ HandlesTo(j) >= 2 /\ relCalls[j] = 0

\* C2: for an instance that is created and looked up by name, the native
\* release is invoked at most once and only when no handle to the instance,
\* created or looked up, is left.
C2_ReleaseOnceAfterAllHandles ==
    \A i \in InstIds : Created(i) =>
        /\ relCalls[i] <= 1
        /\ relCalls[i] >= 1 => HandlesTo(i) = 0

\* C3: every id present in the registry table maps to a handle whose native
\* instance has not been released.
C3_TableEntriesLive ==
    \A id \in ArcIds : LOGGERS[id] # 0 => nState[aInst[LOGGERS[id]]] = "live"

InOperation(t) ==
    thr[t].pc \in {"write:check", "write_with_meta:check", "write_with_meta:write",
                   "flush", "drop"}

\* C4: while a thread works on the handle get_logger(id) returned, the
\* instance is live and unreleased, whether or not the id has been removed
\* meanwhile; no native call is made on a released instance.
C4_GetKeepsInstanceAlive ==
    /\ ~uaf
    /\ \A t \in Threads : InOperation(t) =>
          /\ strong[thr[t].arc] >= 1
          /\ nState[aInst[thr[t].arc]] = "live"
          /\ relCalls[aInst[thr[t].arc]] = 0

\* C4 witness: a thread is about to issue the native write on a handle whose
\* id another thread has removed since the lookup.
C4_Witness ==
    \E t \in Threads :
        /\ thr[t].pc = "write_with_meta:write"
        /\ thr[t].id \in removed
        /\ LOGGERS[thr[t].id] = 0

\* C5: with concurrent writers on clones of one handle, a writer past its
\* check can always issue its native write, and does so on a live instance;
\* no native call reaches a released instance; the release is never invoked
\* twice, and has been invoked once when all clones are dropped.
C5_ConcurrentWriters ==
    /\ ~uaf
    /\ \A o \in Owners : own[o].pc = "write" =>
          /\ ENABLED OwnerWrite(o)
          /\ nState[aInst[own[o].arc]] = "live"
    /\ \A i \in InstIds : Created(i) =>
          /\ relCalls[i] <= 1
          /\ HandlesTo(i) = 0 => relCalls[i] = 1

\* C5 witness: two writers, each holding a clone of the same handle, are both
\* between their check and their native write.
C5_Witness ==
    \E o \in Owners, p \in Owners :
        /\ o # p
        /\ own[o].pc = "write" /\ own[p].pc = "write"
        /\ own[o].arc = own[p].arc

\* An id is in use once insert_logger has stored it
Inserted(id) ==
    /\ \E k \in 1..Len(issued) : issued[k] = id
    /\ \A t \in Threads : ~(thr[t].pc = "insert" /\ thr[t].id = id)

\* C6: the first remove_logger(id) of an inserted id returns true and takes
\* the entry out; a removed id is never in the table again, so get_logger
\* returns None and remove_logger returns false for it; remove_logger of an id
\* that was never inserted returns false and leaves the table unchanged.
C6_RemoveStep ==
    /\ (lastOp'.op = "nativeReleaseLogger" /\ lastOp'.id # 0) =>
          /\ (Inserted(lastOp'.id) /\ lastOp'.id \notin removed) =>
                (lastOp'.res = "true" /\ LOGGERS'[lastOp'.id] = 0)
          /\ lastOp'.id \in removed => lastOp'.res = "false"
          /\ ~Inserted(lastOp'.id) => (lastOp'.res = "false" /\ LOGGERS' = LOGGERS)
    /\ (lastOp'.op = "get_logger" /\ lastOp'.id \in removed) =>
          (lastOp'.res = "None" /\ thr' = thr)

C6_RemoveThenNotFound ==
    /\ [](\A id \in removed : LOGGERS[id] = 0)
    /\ [][C6_RemoveStep]_vars

\* C6 witness: a second remove_logger of a removed id has returned false.
C6_Witness ==
    /\ lastOp.op = "nativeReleaseLogger"
    /\ lastOp.id \in removed
    /\ lastOp.res = "false"

\* C7: the ids next_id returns start at 1, are never zero, and increase
\* strictly in allocation order, so no id is returned twice, removed or not.
C7_IdsMonotonic ==
    /\ Len(issued) >= 1 => issued[1] = 1
    /\ \A k \in 1..Len(issued) : issued[k] # 0
    /\ \A j \in 1..Len(issued), k \in 1..Len(issued) : j < k => issued[j] < issued[k]
    /\ \A id \in ArcIds : LOGGERS[id] # 0 => \E k \in 1..Len(issued) : issued[k] = id

\* C7 witness: an id has just been allocated after an earlier id was removed.
C7_Witness ==
    /\ lastOp.op = "nativeCreateLogger"
    /\ lastOp.res = "Ok"
    /\ removed # {}
    /\ Len(issued) >= 2

ConfigOps == {"Xlog::new", "Xlog::appender_open", "Xlog::oneshot_flush"}

EmptyRequired(config) == config.log_dir = EmptyStr \/ config.name_prefix = EmptyStr

\* C8: Xlog::new, appender_open and oneshot_flush on a configuration with an
\* empty log_dir or name_prefix return InvalidConfig, make no native call and
\* create no handle.
C8_Step ==
    (lastOp'.op \in ConfigOps /\ EmptyRequired(lastOp'.cfg)) =>
        /\ lastOp'.res = "InvalidConfig"
        /\ lastOp'.calls = << >>
        /\ lastOp'.arc = 0
        /\ UNCHANGED <<arcVars, own, nativeVars, relCalls>>

C8_InvalidConfigNoNativeCall == [][C8_Step]_vars

\* C8 witness: Xlog::new has rejected a configuration whose name_prefix alone
\* is empty.
C8_Witness ==
    /\ lastOp.op = "Xlog::new"
    /\ lastOp.cfg.log_dir # EmptyStr
    /\ lastOp.cfg.name_prefix = EmptyStr
    /\ lastOp.res = "InvalidConfig"

\* C9: when the native create returns 0, Xlog::new returns InitFailed, creates
\* no handle and invokes no release; when it returns a non-zero id, Xlog::new
\* returns a handle whose instance() is that id.
C9_Step ==
    (lastOp'.op = "Xlog::new" /\ lastOp'.calls # << >>) =>
        /\ Len(lastOp'.calls) = 1
        /\ lastOp'.calls[1].fn = "mars_xlog_new_instance"
        /\ lastOp'.calls[1].ret = 0 =>
              /\ lastOp'.res = "InitFailed"
              /\ lastOp'.arc = 0
              /\ UNCHANGED <<arcVars, own, relCalls>>
        /\ lastOp'.calls[1].ret # 0 =>
              /\ lastOp'.res = "Ok"
              /\ lastOp'.arc = nextArc
              /\ nextArc' = nextArc + 1
              /\ strong'[lastOp'.arc] = 1
              /\ aInst'[lastOp'.arc] = lastOp'.calls[1].ret
              /\ \E o \in Owners : own[o].arc = 0 /\ own'[o].arc = lastOp'.arc

C9_CreateResult == [][C9_Step]_vars

\* C9 witness: Xlog::new has returned InitFailed after a native create.
C9_Witness ==
    /\ lastOp.op = "Xlog::new"
    /\ lastOp.res = "InitFailed"
    /\ Len(lastOp.calls) = 1

\* C10: in every configuration handed to the native engine, pub_key is null
\* iff config.pub_key is None, and cache_dir is null iff config.cache_dir is
\* None.
C10_OptionalNullIffNone ==
    \A k \in 1..Len(lastOp.calls) :
        lastOp.calls[k].fn \in {"mars_xlog_new_instance", "mars_xlog_appender_open",
                                "mars_xlog_oneshot_flush"} =>
            /\ lastOp.calls[k].cfg.pub_key.null <=> ~lastOp.cfg.pub_key.some
            /\ lastOp.calls[k].cfg.cache_dir.null <=> ~lastOp.cfg.cache_dir.some

\* C10 witness: a native create received a null pub_key for an unset field
\* and a non-null, empty cache_dir for a field set to the empty string.
C10_Witness ==
    /\ lastOp.op = "Xlog::new"
    /\ Len(lastOp.calls) = 1
    /\ lastOp.cfg.pub_key = None
    /\ lastOp.cfg.cache_dir = Some(EmptyStr)
    /\ lastOp.calls[1].cfg.pub_key = NullPtr
    /\ lastOp.calls[1].cfg.cache_dir = Ptr(EmptyStr)

ConfigCalls == {"mars_xlog_new_instance", "mars_xlog_appender_open",
                "mars_xlog_oneshot_flush"}

\* C11: in every native create, open or one-shot-flush call, the logdir and
\* nameprefix strings handed to the native engine are non-empty.
C11_RequiredNonEmptyAtNative ==
    \A k \in 1..Len(lastOp.calls) :
        lastOp.calls[k].fn \in ConfigCalls =>
            /\ ~lastOp.calls[k].cfg.logdir.null
            /\ lastOp.calls[k].cfg.logdir.s # EmptyStr
            /\ ~lastOp.calls[k].cfg.nameprefix.null
            /\ lastOp.calls[k].cfg.nameprefix.s # EmptyStr

\* s with every terminator byte taken out, the other bytes in order
RECURSIVE WithoutNul(_)
WithoutNul(s) ==
    IF s = << >> THEN << >>
    ELSE IF Head(s) = 0 THEN WithoutNul(Tail(s))
    ELSE <<Head(s)>> \o WithoutNul(Tail(s))

Marshalled(ptr, s) == ~ptr.null /\ ptr.s = WithoutNul(s)

\* C12: every string marshalled by to_cstring (the configuration fields of a
\* create, open or one-shot flush; tag, file, func and message of a write)
\* reaches the native engine as the input without its terminator bytes:
\* never null, never a placeholder.
C12_Step ==
    /\ \A k \in 1..Len(lastOp'.calls) :
          lastOp'.calls[k].fn \in ConfigCalls =>
              /\ Marshalled(lastOp'.calls[k].cfg.logdir, lastOp'.cfg.log_dir)
              /\ Marshalled(lastOp'.calls[k].cfg.nameprefix, lastOp'.cfg.name_prefix)
              /\ lastOp'.cfg.pub_key.some =>
                    Marshalled(lastOp'.calls[k].cfg.pub_key, lastOp'.cfg.pub_key.v)
              /\ lastOp'.cfg.cache_dir.some =>
                    Marshalled(lastOp'.calls[k].cfg.cache_dir, lastOp'.cfg.cache_dir.v)
    /\ \A k \in 1..Len(lastOp'.calls) :
          lastOp'.calls[k].fn = "mars_xlog_write" =>
              \E o \in Owners :
                  /\ own[o].pc = "write" /\ own'[o].pc = "idle"
                  /\ Marshalled(lastOp'.calls[k].info.tag,
                                IF own[o].w.tag.some THEN own[o].w.tag.v
                                ELSE aName[own[o].arc])
                  /\ Marshalled(lastOp'.calls[k].info.filename, own[o].w.file)
                  /\ Marshalled(lastOp'.calls[k].info.func_name, own[o].w.func)
                  /\ Marshalled(lastOp'.calls[k].info.log, own[o].w.msg)

C12_StringsSanitized == [][C12_Step]_vars

\* C12 witness: a write whose tag and message carried a terminator byte has
\* reached the native engine with tag and message "a".
C12_Witness ==
    /\ lastOp.op = "write_with_meta:write"
    /\ Len(lastOp.calls) = 1
    /\ lastOp.calls[1].info.tag = Ptr(StrA)
    /\ lastOp.calls[1].info.log = Ptr(StrA)
    /\ lastOp.calls[1].info.filename = Ptr(StrKey)
    /\ aName[lastOp.arc] # StrA

\* C13: the name passed to the native release when the last owner of a
\* handle from Xlog::new is dropped is the name under which the native engine
\* registered the instance at creation.
C13_ReleaseNameIsCreateName ==
    (lastOp.op = "drop" /\ lastOp.calls # << >>) =>
        /\ lastOp.calls[1].fn = "mars_xlog_release_instance"
        /\ lastOp.calls[1].name = Ptr(nName[aInst[lastOp.arc]])

CheckOps == {"log", "write", "write_with_meta:is_enabled"}

IsWrite(c) == c.fn = "mars_xlog_write"

\* C14: on every write path a check that answers false ends the call with
\* no native write, and a native write is issued only by a call whose
\* is_enabled checks, made for the same level on the same instance, all
\* answered true.
C14_Step ==
    /\ (lastOp'.op \in CheckOps /\ lastOp'.res = "false") =>
          /\ Len(lastOp'.calls) = 1
          /\ lastOp'.calls[1].fn = "mars_xlog_is_enabled"
          /\ lastOp'.calls[1].ret = 0
          /\ \A o \in Owners : own'[o].pc # "idle" => own'[o] = own[o]
    /\ \A k \in 1..Len(lastOp'.calls) : IsWrite(lastOp'.calls[k]) =>
          \E o \in Owners :
              /\ own[o].pc = "write" /\ own'[o].pc = "idle"
              /\ lastOp'.calls[k].inst = aInst[own[o].arc]
              /\ Len(own[o].calls) >= 1
              /\ \A j \in 1..Len(own[o].calls) :
                    /\ own[o].calls[j].fn = "mars_xlog_is_enabled"
                    /\ own[o].calls[j].ret = 1
                    /\ own[o].calls[j].inst = lastOp'.calls[k].inst
                    /\ own[o].calls[j].level = lastOp'.calls[k].level

C14_NoWriteWhenDisabled == [][C14_Step]_vars

\* C14 witness: a check that answered false has ended one call of
\* Xlog::write while another call, at the same level on the same instance,
\* has passed both of its checks and is about to write (the level was raised
\* in between).
C14_Witness ==
    /\ lastOp.op = "write"
    /\ lastOp.res = "false"
    /\ \E o \in Owners :
          /\ own[o].pc = "write"
          /\ Len(own[o].calls) = 2
          /\ lastOp.calls[1].level = own[o].lvl
          /\ aInst[own[o].arc] = lastOp.calls[1].inst

\* The native calls of a log of steps, in order
RECURSIVE NativeCalls(_)
NativeCalls(tr) ==
    IF tr = << >> THEN << >> ELSE Head(tr).calls \o NativeCalls(Tail(tr))

OpsOf(tr) == [k \in 1..Len(tr) |-> tr[k].op]

ReleaseCount(calls) ==
    Cardinality({k \in 1..Len(calls) : calls[k].fn = "mars_xlog_release_instance"})

\* The program create; clone; write(Info, "tag", "hello"); flush(true);
\* drop; drop
ScriptOps == <<"Xlog::new", "Xlog::clone", "write", "write_with_meta:is_enabled",
               "write_with_meta:write", "flush", "drop", "drop">>

ScriptRun == OpsOf(lastOp.trace) = ScriptOps /\ lastOp.trace[1].res = "Ok"

\* C15: with no change of level, after a successful create of "app" at a
\* level that enables Info: the program create, clone, write(Info, "tag",
\* "hello"), flush(true), drop, drop makes exactly the native calls create,
\* is_enabled, is_enabled, one write (Info, "tag", "hello"), one flush with
\* the synchronous flag, one release of "app", in this order; and in every
\* run each write step makes that one write, each flush(true) that one
\* flush, and the release of "app" is made once, as the last native call,
\* exactly when no clone is left.
C15_EndToEnd ==
    LET tr == lastOp.trace
        d == NativeCalls(lastOp.trace) IN
    /\ ScriptRun =>
          /\ Len(d) = 6
          /\ d[1].fn = "mars_xlog_new_instance"
          /\ d[1].cfg.nameprefix = Ptr(StrApp) /\ d[1].ret # 0
          /\ \A k \in {2, 3} :
                /\ d[k].fn = "mars_xlog_is_enabled"
                /\ d[k].inst = d[1].ret /\ d[k].level = kLevelInfo /\ d[k].ret = 1
          /\ d[4].fn = "mars_xlog_write" /\ d[4].inst = d[1].ret
          /\ d[4].info.level = kLevelInfo
          /\ d[4].info.tag = Ptr(StrTag) /\ d[4].info.log = Ptr(StrHello)
          /\ d[5].fn = "mars_xlog_flush" /\ d[5].inst = d[1].ret /\ d[5].flag = 1
          /\ d[6].fn = "mars_xlog_release_instance" /\ d[6].name = Ptr(StrApp)
    /\ \A k \in 1..Len(tr) :
          /\ tr[k].res # "false"
          /\ tr[k].op = "write_with_meta:write" =>
                /\ Len(tr[k].calls) = 1
                /\ tr[k].calls[1].fn = "mars_xlog_write"
                /\ tr[k].calls[1].info.level = kLevelInfo
                /\ tr[k].calls[1].info.tag = Ptr(StrTag)
                /\ tr[k].calls[1].info.log = Ptr(StrHello)
          /\ tr[k].op = "flush" =>
                /\ Len(tr[k].calls) = 1
                /\ tr[k].calls[1].fn = "mars_xlog_flush"
                /\ tr[k].calls[1].flag = 1
    /\ ReleaseCount(d) = IF nextInst > 1 /\ HandlesTo(1) = 0 THEN 1 ELSE 0
    /\ ReleaseCount(d) = 1 =>
          /\ d[Len(d)].fn = "mars_xlog_release_instance"
          /\ d[Len(d)].name = Ptr(StrApp)
    /\ ~uaf

\* C15 witness: the program create, clone, write, flush, drop, drop has run
\* to its end.
C15_Witness == ScriptRun /\ HandlesTo(1) = 0

QueryOps == {"Xlog::filepaths_from_timespan", "Xlog::make_logfile_name"}

\* C16: a variable-length query calls the native function once, with a
\* 4096-byte buffer, when the required length it reports is at most 4096;
\* and exactly twice when it is larger, the second time with a buffer at
\* least as long as the length the first call reported; never more than
\* twice.
C16_QueryCallCount ==
    lastOp.op \in QueryOps =>
        /\ Len(lastOp.calls) \in {1, 2}
        /\ lastOp.calls[1].cap = 4096
        /\ lastOp.calls[1].ret <= 4096 => Len(lastOp.calls) = 1
        /\ lastOp.calls[1].ret > 4096 =>
              /\ Len(lastOp.calls) = 2
              /\ lastOp.calls[2].cap >= lastOp.calls[1].ret

\* C16 witness: a query has made a second call with a 10000-byte buffer
\* after a first answer of 10000.
C16_Witness ==
    /\ lastOp.op = "Xlog::filepaths_from_timespan"
    /\ Len(lastOp.calls) = 2
    /\ lastOp.calls[1].ret = 10000
    /\ lastOp.calls[2].cap = 10000
    /\ lastOp.out = <<StrA, StrA>>

\* C17: when the second call of a query again reports a required length
\* larger than the buffer it was given, the query returns the empty
\* sequence, whatever the buffer holds.
C17_SecondFailureIsEmpty ==
    (lastOp.op \in QueryOps /\ Len(lastOp.calls) = 2
        /\ lastOp.calls[2].ret > lastOp.calls[2].cap) => lastOp.out = << >>

RECURSIVE JoinNewline(_)
JoinNewline(segs) ==
    IF Len(segs) = 0 THEN << >>
    ELSE IF Len(segs) = 1 THEN segs[1]
    ELSE segs[1] \o <<Newline>> \o JoinNewline(Tail(segs))

\* The string retrieved by the last call of a query is the whole native
\* string: the call stored it and reported a length within the buffer
Retrieved(c) == c.ret <= c.cap

\* C18: for a retrieved native string s, the query returns the empty
\* sequence when s is empty, and otherwise the segments of s between
\* newlines, none of them containing a newline, which joined with newlines
\* give s.
C18_SplitRoundTrip ==
    (lastOp.op \in QueryOps /\ Retrieved(lastOp.calls[Len(lastOp.calls)])) =>
        LET str == lastOp.calls[Len(lastOp.calls)].buf IN
        /\ str = << >> => lastOp.out = << >>
        /\ str # << >> =>
              /\ Len(lastOp.out) >= 1
              /\ \A k \in 1..Len(lastOp.out) :
                    \A i \in 1..Len(lastOp.out[k]) : lastOp.out[k][i] # Newline
              /\ JoinNewline(lastOp.out) = str

\* The id names no handle: it is 0, was never stored, or has been removed
InvalidId(id) == id = 0 \/ ~Inserted(id) \/ id \in removed

\* C19: for an id that is 0, was never issued or has been removed, every
\* bridge function that takes a handle returns without a native call and
\* leaves the registry, the handles and the native engine as they were;
\* nativeIsEnabled returns false (0) and nativeGetLevel returns -1.
C19_Step ==
    (lastOp'.op = "get_logger" /\ InvalidId(lastOp'.id)) =>
        /\ lastOp'.res = "None"
        /\ lastOp'.calls = << >>
        /\ UNCHANGED <<regVars, arcVars, nativeVars, relCalls, uaf, thr>>
        /\ lastOp'.api = "nativeIsEnabled" => lastOp'.ret = 0
        /\ lastOp'.api = "nativeGetLevel" => lastOp'.ret = -1

C19_InvalidIdSkipped == [][C19_Step]_vars

\* C19 witness: nativeGetLevel has returned -1 for a removed id while
\* another id is in the table.
C19_Witness ==
    /\ lastOp.op = "get_logger"
    /\ lastOp.api = "nativeGetLevel"
    /\ lastOp.id \in removed
    /\ lastOp.ret = -1
    /\ \E id \in ArcIds : LOGGERS[id] # 0

\* C20: on_event ends with no native call at all when the enabled flag it
\* loads is false or the event level is below the minimum level it loads;
\* it ends with no native write when the handle's is_enabled answers false;
\* and it writes only after the flag was loaded true, the level was at or
\* above the loaded minimum and both is_enabled checks answered true.
C20_Step ==
    /\ (lastOp'.op = "on_event:enabled" /\ ~layer.enabled) =>
          /\ lastOp'.res = "rejected"
          /\ lastOp'.calls = << >>
          /\ evt' = evt
    /\ \A t \in Threads :
          (lastOp'.op = "on_event:level" /\ evt[t].pc = "min" /\ evt'[t] # evt[t]
              /\ evt[t].lvl < layer.level) =>
                /\ lastOp'.res = "rejected"
                /\ lastOp'.calls = << >>
                /\ evt[t].calls = << >>
                /\ evt'[t] = IdleEvent
    /\ \A t \in Threads :
          (lastOp'.op \in {"on_event:is_enabled", "on_event:write_with_meta:is_enabled"}
              /\ lastOp'.res = "false" /\ evt'[t] # evt[t]) =>
                /\ evt'[t] = IdleEvent
                /\ Len(lastOp'.calls) = 1
                /\ lastOp'.calls[1].fn = "mars_xlog_is_enabled"
    /\ \A k \in 1..Len(lastOp'.calls) :
          (IsWrite(lastOp'.calls[k]) /\ lastOp'.op = "on_event:write") =>
              \E t \in Threads :
                  /\ evt[t].pc = "write" /\ evt'[t] = IdleEvent
                  /\ evt[t].enabled
                  /\ evt[t].lvl >= evt[t].min
                  /\ lastOp'.calls[k].level = evt[t].lvl
                  /\ Len(evt[t].calls) = 2
                  /\ \A j \in 1..2 :
                        /\ evt[t].calls[j].fn = "mars_xlog_is_enabled"
                        /\ evt[t].calls[j].ret = 1
                        /\ evt[t].calls[j].level = evt[t].lvl

C20_LayerGates == [][C20_Step]_vars

\* C20 witness: the handle of the layer has answered false for an event the
\* layer's own gate had passed, while another event has passed every check
\* and is about to be written.
C20_Witness ==
    /\ lastOp.op = "on_event:is_enabled"
    /\ lastOp.res = "false"
    /\ layer.enabled
    /\ \E t \in Threads : evt[t].pc = "write"

AdapterOps == {"XlogLayer::with_config", "XlogLayerHandle::set_enabled",
               "XlogLayerHandle::set_level", "XlogLayerHandle::set_level:store"}

\* C21: XlogLayer::with_config, XlogLayerHandle::set_enabled and
\* XlogLayerHandle::set_level leave the configured level of every native
\* instance as it was.
C21_Step == lastOp'.op \in AdapterOps => nLevel' = nLevel

C21_AdapterLeavesNativeLevel == [][C21_Step]_vars

IsMessageField(f) == f.name = StrMessage
IsOtherField(f) == f.name # StrMessage

\* key=value of each field, separated by ", "
RECURSIVE KeyValues(_)
KeyValues(fields) ==
    IF fields = << >> THEN << >>
    ELSE IF Len(fields) = 1 THEN fields[1].name \o StrEq \o fields[1].value
    ELSE fields[1].name \o StrEq \o fields[1].value \o StrCommaSpace
         \o KeyValues(Tail(fields))

\* The explicit message followed by the other fields in braces
MessageThenFields(recs) ==
    LET msg == SelectSeq(recs, IsMessageField)[1].value
        others == SelectSeq(recs, IsOtherField) IN
    IF others = << >> THEN msg
    ELSE msg \o StrSpace \o StrLBrace \o KeyValues(others) \o StrRBrace

\* The event that the on_event:write step of this transition forwards
Forwarded(t) ==
    /\ lastOp'.op = "on_event:write"
    /\ evt[t].pc = "write"
    /\ evt'[t] = IdleEvent

\* C22: with span names off, the message of every forwarded event with an
\* explicit message is that message followed by the other fields as
\* key=value, comma-separated, in braces, in recorded order; the message of
\* every forwarded event without an explicit message, with or without other
\* fields, is the name of the event.
C22_Step ==
    \A t \in Threads : (Forwarded(t) /\ ~layer.include_spans) =>
        /\ Len(lastOp'.calls) = 1
        /\ lastOp'.calls[1].fn = "mars_xlog_write"
        /\ lastOp'.calls[1].info.log =
              Ptr(IF SelectSeq(evt[t].e.recs, IsMessageField) # << >>
                  THEN MessageThenFields(evt[t].e.recs)
                  ELSE evt[t].e.name)

C22_ForwardedMessage == [][C22_Step]_vars

\* C23: a forwarded event whose metadata has no file, module path or line
\* reaches write_with_meta with an empty file, an empty function and line 0;
\* metadata that is present is passed as it is.
C23_Step ==
    \A t \in Threads : Forwarded(t) =>
        /\ Len(lastOp'.calls) = 1
        /\ lastOp'.calls[1].info.filename =
              Ptr(IF evt[t].e.file.some THEN evt[t].e.file.v ELSE EmptyStr)
        /\ lastOp'.calls[1].info.func_name =
              Ptr(IF evt[t].e.module.some THEN evt[t].e.module.v ELSE EmptyStr)
        /\ lastOp'.calls[1].info.line =
              (IF evt[t].e.line.some
               THEN evt[t].e.line.v.hi * 65536 + evt[t].e.line.v.lo ELSE 0)

C23_ForwardedProvenance == [][C23_Step]_vars

\* The comparison of is_enabled_for that this transition makes for thread t
Gated(t) == lastOp'.op = "on_event:level" /\ evt[t].pc = "min" /\ evt'[t] # evt[t]

\* C24: the gate of the layer is monotonic in the minimum over Verbose <
\* Debug < Info < Warn < Error < Fatal < None: an event level that passes at
\* the stored minimum passes at every lower minimum, one that is rejected is
\* rejected at every higher minimum, a level passes exactly when it is at or
\* above the minimum, and at minimum None no event passes.
C24_Step ==
    \A t \in Threads : Gated(t) =>
        LET min == level_from_u8(layer.level) IN
        /\ lastOp'.res = "passed" <=> evt[t].lvl >= min
        /\ lastOp'.res = "passed" <=> LevelGate(evt[t].lvl, min)
        /\ \A m1 \in GateLevels, m2 \in GateLevels :
              (m1 <= m2 /\ LevelGate(evt[t].lvl, m2)) => LevelGate(evt[t].lvl, m1)
        /\ lastOp'.res = "passed" =>
              \A m1 \in GateLevels : m1 <= min => LevelGate(evt[t].lvl, m1)
        /\ lastOp'.res = "rejected" =>
              \A m2 \in GateLevels : m2 >= min => ~LevelGate(evt[t].lvl, m2)
        /\ min = kLevelNone => lastOp'.res = "rejected"
        /\ ~LevelGate(evt[t].lvl, kLevelNone)

C24_GateMonotonic == [][C24_Step]_vars

\* C24 witness: an event has been rejected by an enabled layer whose minimum
\* is None.
C24_Witness ==
    /\ lastOp.op = "on_event:level"
    /\ lastOp.res = "rejected"
    /\ layer.enabled
    /\ level_from_u8(layer.level) = kLevelNone
    /\ layer.pending = NoPending

\* The level given by the latest set_level among the steps tr, or by the
\* create when there is none
RECURSIVE LastLevelSet(_)
LastLevelSet(tr) ==
    IF tr = << >> THEN -1
    ELSE LET last == tr[Len(tr)] IN
         IF last.op = "set_level" THEN last.calls[1].level
         ELSE IF last.op = "Xlog::new" /\ last.res = "Ok" THEN last.calls[1].level
         ELSE LastLevelSet(SubSeq(tr, 1, Len(tr) - 1))

\* The id the native create returned in the steps tr (0: none)
CreatedId(tr) ==
    LET K == {k \in 1..Len(tr) : tr[k].op = "Xlog::new" /\ tr[k].res = "Ok"} IN
    IF K = {} THEN 0 ELSE tr[CHOOSE k \in K : TRUE].calls[1].ret

\* C25: every clone of a handle carries the instance id the create returned
\* for as long as it is held, and level() through one clone returns the
\* level of the latest set_level made through another clone (the level of
\* the create when there was none).
C25_SharedInstance ==
    /\ \A o \in Owners : own[o].arc # 0 =>
          /\ CreatedId(lastOp.trace) # 0
          /\ aInst[own[o].arc] = CreatedId(lastOp.trace)
    /\ lastOp.op = "instance" => lastOp.ret = CreatedId(lastOp.trace)
    /\ lastOp.op = "level" =>
          /\ lastOp.calls[1].inst = CreatedId(lastOp.trace)
          /\ lastOp.ret = LastLevelSet(SubSeq(lastOp.trace, 1, Len(lastOp.trace) - 1))
    /\ lastOp.op = "set_level" => lastOp.calls[1].inst = CreatedId(lastOp.trace)

\* C25 witness: after a create at Info, owner 2 reads Warn through its clone
\* right after owner 1 set Warn through the original.
C25_Witness ==
    /\ Len(lastOp.trace) >= 4
    /\ lastOp.trace[1].res = "Ok"
    /\ lastOp.trace[1].calls[1].level = kLevelInfo
    /\ lastOp.trace[Len(lastOp.trace) - 1].op = "set_level"
    /\ lastOp.trace[Len(lastOp.trace) - 1].calls[1].level = kLevelWarn
    /\ lastOp.op = "level"
    /\ lastOp.ret = kLevelWarn
    /\ own[1].arc # 0 /\ own[1].arc = own[2].arc

\* The core creation of this Logger::new step failed
CoreFailed(op) ==
    /\ op.op = "Logger::new"
    /\ \/ EmptyRequired(op.cfg)
       \/ op.calls # << >> /\ op.calls[1].ret = 0

\* C26: when the core creation fails, with InvalidConfig or InitFailed,
\* Logger::new returns the typed error XlogError::Message with a non-empty
\* text, and no Logger object: no handle exists afterwards that did not
\* before, and the call is over.
C26_Step ==
    CoreFailed(lastOp') =>
        /\ lastOp'.res = "Err(Message)"
        /\ lastOp'.err # EmptyStr
        /\ lastOp'.arc = 0
        /\ UNCHANGED <<own, thr, arcVars, regVars, layerVars, relCalls>>

C26_TypedErrorOnFailure == [][C26_Step]_vars

\* C26 witness: Logger::new has returned the error of a native create that
\* answered 0 while the Logger object of an earlier call is held.
C26_Witness ==
    /\ lastOp.op = "Logger::new"
    /\ lastOp.res = "Err(Message)"
    /\ lastOp.err = StrInitFailed
    /\ Len(lastOp.calls) = 1
    /\ \E o \in Owners : own[o].arc # 0 /\ layer.arc = own[o].arc

\* C27: XlogConfig::build returns normally, without a panic, for every
\* configuration and every answer of the native create.
C27_BuildNeverPanics == lastOp.op = "XlogConfig::build" => lastOp.res # "panic"

BridgeCreates == {"nativeCreateLogger", "Logger::new", "XlogConfig::build"}

Absent(o) == ~o.some \/ o.v = EmptyStr

\* C28: in every native create made by a bridge constructor, a pub_key or
\* cache_dir the foreign caller gave as an empty string (or as null) is a
\* null pointer in the native configuration.
C28_EmptyOptionalIsNull ==
    (lastOp.op \in BridgeCreates /\ lastOp.calls # << >>) =>
        /\ Absent(lastOp.ffi.pub_key) => lastOp.calls[1].cfg.pub_key.null
        /\ Absent(lastOp.ffi.cache_dir) => lastOp.calls[1].cfg.cache_dir.null

\* C29: Xlog::get asks the native engine for the name given, with embedded
\* terminator bytes removed, and returns a handle to the instance found
\* exactly when the native lookup answers a non-zero id, None when it
\* answers 0.
C29_LookupSanitized ==
    lastOp.op = "Xlog::get" =>
        /\ Len(lastOp.calls) = 1
        /\ lastOp.calls[1].fn = "mars_xlog_get_instance"
        /\ lastOp.calls[1].name = Ptr(WithoutNul(lastOp.name))
        /\ lastOp.res = "Some" <=> lastOp.calls[1].ret # 0
        /\ lastOp.res = "None" <=> lastOp.calls[1].ret = 0
        /\ lastOp.res = "Some" =>
              /\ lastOp.arc # 0
              /\ aInst[lastOp.arc] = lastOp.calls[1].ret
        /\ lastOp.res = "None" => lastOp.arc = 0

\* The native write that owner o issues in this transition
Written(o) ==
    /\ lastOp'.op = "write_with_meta:write"
    /\ own[o].pc = "write"
    /\ own'[o].pc = "idle"

\* Level, tag, file, func, message and ids of the native write of owner o:
\* the caller's tag or else the name_prefix of the handle, the caller's
\* level and strings without their terminator bytes, and -1 for pid, tid
\* and maintid
WriteRecord(o) ==
    LET info == lastOp'.calls[1].info
        w == own[o].w IN
    /\ Len(lastOp'.calls) = 1
    /\ lastOp'.calls[1].fn = "mars_xlog_write"
    /\ lastOp'.calls[1].inst = aInst[own[o].arc]
    /\ info.level = own[o].lvl
    /\ w.tag.some => info.tag = Ptr(WithoutNul(w.tag.v))
    /\ ~w.tag.some => info.tag = Ptr(WithoutNul(aName[own[o].arc]))
    /\ info.filename = Ptr(WithoutNul(w.file))
    /\ info.func_name = Ptr(WithoutNul(w.func))
    /\ info.log = Ptr(WithoutNul(w.msg))
    /\ info.pid = -1 /\ info.tid = -1 /\ info.maintid = -1

\* The c_int n is the u32 line
SameNumber(n, line) == n >= 0 /\ n \div 65536 = line.hi /\ n % 65536 = line.lo

\* The c_int n is the u32 line less 2^32
Wrapped(n, line) ==
    /\ n < 0
    /\ (n + 2147483647 + 1) \div 65536 = line.hi - 32768
    /\ (n + 2147483647 + 1) % 65536 = line.lo

\* C30 as stated: in every native write issued by write_with_meta the tag is
\* the caller's tag or, when absent, the name_prefix of the handle; level,
\* file, func, line and message are the caller's (strings sanitized); pid,
\* tid and maintid are -1.
C30_StepAsStated ==
    \A o \in Owners : Written(o) =>
        /\ WriteRecord(o)
        /\ SameNumber(lastOp'.calls[1].info.line, own[o].w.line)

C30_WriteRecordAsStated == [][C30_StepAsStated]_vars

\* What the native write does carry: everything above, with the caller's
\* u32 line read as a 32-bit signed integer: the caller's line up to
\* 2^31 - 1, and the caller's line less 2^32 from 2^31 on.
WriteRecordWrappedStep ==
    \A o \in Owners : Written(o) =>
        /\ WriteRecord(o)
        /\ own[o].w.line.hi < 32768 =>
              SameNumber(lastOp'.calls[1].info.line, own[o].w.line)
        /\ own[o].w.line.hi >= 32768 =>
              Wrapped(lastOp'.calls[1].info.line, own[o].w.line)

WriteRecordWrapped == [][WriteRecordWrappedStep]_vars

\* A write without a tag and with line 2^32 - 1 has reached the native
\* engine with the name_prefix "a" as its tag, line -1 and the ids -1.
WrappedLineReached ==
    /\ lastOp.op = "write_with_meta:write"
    /\ Len(lastOp.calls) = 1
    /\ lastOp.calls[1].info.tag = Ptr(StrA)
    /\ aName[lastOp.arc] = StrA
    /\ lastOp.calls[1].info.line = -1
    /\ lastOp.calls[1].info.pid = -1
    /\ lastOp.calls[1].info.log = Ptr(StrA)

RegisterOps == {"nativeCreateLogger", "nativeGetLogger"}

\* The core creation or lookup of this step failed: the configuration or the
\* name was refused before any native call, or the native call answered 0
CoreRefused(op) == op.calls = << >> \/ op.calls[1].ret = 0

\* C31: nativeCreateLogger and nativeGetLogger return 0 exactly when the
\* core creation or lookup fails, and then neither the registry table nor
\* the id counter changes; on success they go on to insert_logger, which
\* returns a non-zero id that is in the table and maps to the handle the
\* core call made.
C31_Step ==
    /\ (lastOp'.op \in RegisterOps /\ CoreRefused(lastOp')) =>
          /\ lastOp'.id = 0
          /\ thr' = thr
          /\ LOGGERS' = LOGGERS
          /\ NEXT_ID' = NEXT_ID
    /\ (lastOp'.op \in RegisterOps /\ ~CoreRefused(lastOp')) =>
          \E t \in Threads :
              /\ thr[t].pc = "idle"
              /\ thr'[t].pc = "insert"
              /\ thr'[t].arc = nextArc
              /\ aInst'[nextArc] = lastOp'.calls[1].ret
              /\ strong'[nextArc] = 1
    /\ lastOp'.op = "insert_logger" =>
          \E t \in Threads :
              /\ thr[t].pc = "insert"
              /\ thr'[t].pc = "idle"
              /\ lastOp'.id = thr[t].id
              /\ lastOp'.id # 0
              /\ lastOp'.id \in DOMAIN LOGGERS
              /\ LOGGERS'[lastOp'.id] = thr[t].arc
              /\ thr[t].arc # 0

C31_RegisterResult == [][C31_Step]_vars

\* C31 witness: insert_logger has returned id 2, and the table maps ids 1
\* and 2 to handles on the same live-created instance: the second came from
\* a lookup by name.
C31_Witness ==
    /\ lastOp.op = "insert_logger"
    /\ lastOp.id = 2
    /\ LOGGERS[2] # 0 /\ LOGGERS[1] # 0
    /\ aInst[LOGGERS[2]] = aInst[LOGGERS[1]]
    /\ aInst[LOGGERS[2]] # 0

\* The native one-shot flush of this step was made and answered non-zero
NativeFlushed(op) == op.calls # << >> /\ op.calls[1].ret # 0

\* The FileIoAction of each native code 1..7, in order
FileIoActions == <<"Success", "Unnecessary", "OpenFailed", "ReadFailed",
                   "WriteFailed", "CloseFailed", "RemoveFailed">>

\* C32: oneshot_flush returns InitFailed iff the native call returns 0;
\* otherwise it returns the action of the native code: codes 1..7 give
\* Success, Unnecessary, OpenFailed, ReadFailed, WriteFailed, CloseFailed,
\* RemoveFailed and every other code gives None.  nativeOneshotFlush returns
\* the integer 0..7 of that action, which is the native code itself for
\* codes 0..7, and -1 for any error.
C32_OneshotResult ==
    /\ lastOp.op \in {"Xlog::oneshot_flush", "nativeOneshotFlush"} =>
          /\ lastOp.res = "InitFailed" <=>
                (lastOp.calls # << >> /\ lastOp.calls[1].ret = 0)
          /\ NativeFlushed(lastOp) =>
                /\ lastOp.res = "Ok"
                /\ lastOp.calls[1].flag \in 1..7 =>
                      lastOp.action = FileIoActions[lastOp.calls[1].flag]
                /\ lastOp.calls[1].flag \notin 1..7 => lastOp.action = "None"
    /\ lastOp.op = "nativeOneshotFlush" =>
          /\ ~NativeFlushed(lastOp) => lastOp.ret = -1
          /\ NativeFlushed(lastOp) =>
                /\ lastOp.ret \in 0..7
                /\ lastOp.calls[1].flag \in 0..7 => lastOp.ret = lastOp.calls[1].flag
                /\ lastOp.action = "None" <=> lastOp.ret = 0
                /\ lastOp.ret \in 1..7 => lastOp.action = FileIoActions[lastOp.ret]

\* C32 witness: nativeOneshotFlush has returned 7 for the native code 7,
\* the action RemoveFailed.
C32_Witness ==
    /\ lastOp.op = "nativeOneshotFlush"
    /\ lastOp.calls # << >>
    /\ lastOp.calls[1].flag = 7
    /\ lastOp.action = "RemoveFailed"
    /\ lastOp.ret = 7

\* C33: under every interleaving of insert_logger (its id allocated before
\* the table lock is taken), get_logger and remove_logger, the ids the
\* inserts return are pairwise distinct, no insert overwrites an entry, and
\* the table holds exactly the ids that were inserted and not yet removed.
C33_InsertStep ==
    lastOp'.op = "insert_logger" =>
        /\ LOGGERS[lastOp'.id] = 0
        /\ \A id \in ArcIds : id # lastOp'.id => LOGGERS'[id] = LOGGERS[id]

C33_TableExact ==
    /\ [](\A j \in 1..Len(issued), k \in 1..Len(issued) :
             j # k => issued[j] # issued[k])
    /\ [](\A id \in ArcIds :
             LOGGERS[id] # 0 <=> (Inserted(id) /\ id \notin removed))
    /\ [][C33_InsertStep]_vars

\* C33 witness: the insert that was given id 1 is still waiting for the
\* lock while id 2, allocated after it, has been inserted and removed
\* again.
C33_Witness ==
    /\ \E t \in Threads : thr[t].pc = "insert" /\ thr[t].id = 1
    /\ 2 \in removed
    /\ LOGGERS[1] = 0 /\ LOGGERS[2] = 0
    /\ lastOp.op = "nativeReleaseLogger"
    /\ lastOp.id = 2
    /\ lastOp.res = "true"

\* C34: when the level changes only through XlogLayerHandle::set_level, then
\* whenever no set_level call is in progress the minimum level the adapter
\* stores is the level the native instance is configured with.
C34_LevelsAgree ==
    (layer # NoLayer /\ layer.pending = NoPending) =>
        level_from_u8(layer.level) = LevelFromSys(nLevel[aInst[layer.arc]])

\* C35: every entry of the sequence filepaths_from_timespan and
\* make_logfile_name return is a non-empty string, whatever string the
\* native function stored: newline separators at the start, at the end or
\* next to each other included.
C35_EntriesNonEmpty ==
    lastOp.op \in QueryOps =>
        \A k \in 1..Len(lastOp.out) : lastOp.out[k] # EmptyStr

\* A Logger::new on thread t returns the error of init_tracing in this step
TracingFailureReturned(t) == thr[t].pc = "uniffi:fail" /\ thr'[t].pc = "idle"

\* C36: a Logger::new that fails after its native instance was created,
\* because the global subscriber cannot be installed, has dropped every
\* handle it made when it returns the error: the native release for the
\* name has been invoked exactly once, by this call, and no handle to the
\* instance remains.
C36_Step ==
    \A t \in Threads : TracingFailureReturned(t) =>
        LET a == thr[t].arc IN
        /\ lastOp'.res = "Err(Message)"
        /\ lastOp'.err # EmptyStr
        /\ relCalls[aInst[a]] = 0
        /\ relCalls'[aInst[a]] = 1
        /\ lastOp'.calls = <<CallRelease(Ptr(aName[a]))>>
        /\ nState'[aInst[a]] = "released"
        /\ strong'[a] = 0
        /\ \A o \in Owners : own'[o].arc # a
        /\ \A u \in Threads : thr'[u].arc # a
        /\ \A i \in ArcIds : LOGGERS'[i] # a
        /\ layer'.arc # a

C36_FailedNewReleases == [][C36_Step]_vars

\* C36 witness: the second Logger::new of the process has returned the
\* error of init_tracing and its instance is released, while the instance
\* of the first is live under the installed layer.
C36_Witness ==
    /\ lastOp.op = "Logger::new:drop"
    /\ lastOp.err = StrTracingFailed
    /\ lastOp.arc # 0
    /\ nState[aInst[lastOp.arc]] = "released"
    /\ layer # NoLayer
    /\ layer.arc # lastOp.arc
    /\ nState[aInst[layer.arc]] = "live"

\* C37: Logger::new succeeds whenever the core creation succeeds: every
\* Logger::new call whose native create answered non-zero, for a valid
\* configuration and a name no live instance has, returns a Logger (a call
\* is past the core creation at the positions of InLoggerNew).
InLoggerNew == {"uniffi:console", "uniffi:tracing", "uniffi:info", "uniffi:ret",
                "uniffi:fail"}

C37_Step ==
    \A t \in Threads : (thr[t].pc \in InLoggerNew /\ thr'[t].pc = "idle") =>
        /\ lastOp'.res = "Ok"
        /\ \E o \in Owners : own[o].arc = 0 /\ own'[o].arc = thr[t].arc

C37_NewSucceedsWhenCoreDoes == [][C37_Step]_vars

====
